---- MODULE Spec2Model ----
(***************************************************************************)
(* Partial hash aggregation: GroupByPartialTransform::execute of           *)
(* fusequery/query/src/pipelines/transforms/transform_groupby_partial.rs.  *)
(* One operator instance (aggr_exprs, group_exprs, schema, input, groups)  *)
(* and the calls of execute() made on it; every call is a process with a   *)
(* program counter that follows the lines of execute().                    *)
(*                                                                         *)
(* The layered catalog: DatabaseCatalog of                                 *)
(* src/query/service/src/catalogs/default/database_catalog.rs, its two     *)
(* layers and the operations of the Catalog trait it dispatches to them.   *)
(***************************************************************************)
EXTENDS Integers, Sequences, FiniteSets, TLC

(* ------------------------------ bounds -------------------------------- *)
\* rows of one upstream block
MaxRows == 2
\* blocks one upstream stream yields before it ends
MaxBatches == 2
\* longest string of the Utf8 group-by columns S1, S2
MaxStrLen == 2
\* rows of a block, and blocks of a stream, when two calls share the instance
MaxSharedRows == 1
MaxSharedBatches == 1

\* the calls of execute() on the one operator instance
Procs == {1, 2}

(* ------------------------------ helpers ------------------------------- *)
SeqsUpTo(S, n) == UNION {[1..k -> S] : k \in 0..n}

Range(s) == {s[i] : i \in DOMAIN s}

EmptyMap == <<>>

MapPut(m, k, v) == [x \in (DOMAIN m) \cup {k} |-> IF x = k THEN v ELSE m[x]]

RECURSIVE SumSeq(_)
SumSeq(s) == IF s = <<>> THEN 0 ELSE Head(s) + SumSeq(Tail(s))

(* --------------------------- blocks and cells ------------------------- *)
\* A cell of a column: the validity bit and the bytes of the value buffer
\* (a null slot still has bytes in the buffer).
Cell(isnull, v) == [null |-> isnull, v |-> v]

\* data_type() of a column, by name
ColType(c) == IF c \in {"S1", "S2"} THEN "Utf8" ELSE "Int8"

\* the values of the integer group-by column K, and of the argument column A
KeyVals == {0, 1}

ArgVals == {1, 2}

IntCells == {Cell(n, v) : n \in BOOLEAN, v \in KeyVals}

Strings == SeqsUpTo({1}, MaxStrLen)

StrCells == {Cell(FALSE, s) : s \in Strings} \cup {Cell(TRUE, <<>>), Cell(TRUE, <<1>>)}

ArgCells == {Cell(FALSE, v) : v \in ArgVals}

\* the cells of K in the streams of the operator: 0 and a null whose slot
\* holds the bytes of 0
StreamKeyCells == {Cell(FALSE, 0), Cell(TRUE, 0)}

\* DataBlock: the names of its columns and its rows (row -> column -> cell)
RowsOver(cols) ==
    IF cols = {"K", "A"} THEN {[K |-> k, A |-> a] : k \in StreamKeyCells, a \in ArgCells}
    ELSE IF cols = {"K"} THEN {[K |-> k] : k \in StreamKeyCells}
    ELSE IF cols = {"A"} THEN {[A |-> a] : a \in ArgCells}
    ELSE {[K |-> k, S1 |-> s, S2 |-> t] : k \in IntCells, s \in StrCells, t \in StrCells}

BlocksOver(cols, n) == {[cols |-> cols, rows |-> r] : r \in SeqsUpTo(RowsOver(cols), n)}

\* the schemas an upstream block may have: the full one, and the two that
\* miss a column the operator asks for
InputSchemas == {{"K", "A"}, {"K"}, {"A"}}

Blocks == UNION {BlocksOver(cols, MaxRows) : cols \in InputSchemas}

\* the blocks of the streams of two calls that share the instance: the
\* schema is full or misses the aggregate argument, A is 1
SharedRowsOver(cols) == {r \in RowsOver(cols) : "A" \in cols => r["A"].v = 1}

SharedBlocks ==
    UNION {{[cols |-> cols, rows |-> r] : r \in SeqsUpTo(SharedRowsOver(cols), MaxSharedRows)} :
           cols \in {{"K", "A"}, {"K"}}}

num_rows(b) == Len(b.rows)

\* DataBlock::try_column_by_name: Ok iff the block has the column
has_column(b, name) == name \in b.cols

column_by_name(b, name) == [i \in 1..num_rows(b) |-> b.rows[i][name]]

\* DataBlock::block_take_by_indices: the rows at the (0-based) indices, in
\* the order of the indices, all columns
block_take_by_indices(b, indices) ==
    [cols |-> b.cols, rows |-> [i \in 1..Len(indices) |-> b.rows[indices[i] + 1]]]

(* --------------------------- group key encoding ----------------------- *)
\* The marker a null encodes to: one element that is neither a byte nor a
\* length prefix.
NullMarker == <<-1>>

\* DataValue::concat_row_to_one_key(col, row, &mut vec): appends the row's
\* encoding to vec.  Fixed-width integers: the native bytes; strings: a
\* length prefix, then the raw bytes; null: the marker.
concat_row_to_one_key(typ, cell, vec) ==
    vec \o (IF cell.null THEN NullMarker
            ELSE IF typ = "Utf8" THEN <<Len(cell.v)>> \o cell.v
            ELSE <<cell.v>>)

\* DataValue::try_from_array(col, row): the typed, possibly null, value
try_from_array(typ, cell) ==
    IF cell.null THEN [null |-> TRUE, v |-> IF typ = "Utf8" THEN <<>> ELSE 0]
    ELSE [null |-> FALSE, v |-> cell.v]

\* line 152, group_key.clear(), as a mutation point
ClearKeyKeep(group_key) == group_key

ClearKey(group_key) == <<>>

\* lines 155-158: the columns in the order of group_exprs, each appended to
\* the key buffer and pushed to group_values
RECURSIVE RowKey(_, _, _, _)
RowKey(b, cols, row, group_key) ==
    IF cols = <<>> THEN group_key
    ELSE RowKey(b, Tail(cols), row,
                concat_row_to_one_key(ColType(Head(cols)), b.rows[row + 1][Head(cols)], group_key))

\* line 157 as a mutation point: the values are taken from the first row of
\* the block
RowValuesOfFirst(b, cols, row) ==
    [i \in 1..Len(cols) |-> try_from_array(ColType(cols[i]), b.rows[1][cols[i]])]

\* lines 154-158: group_values, the typed values of the row's group columns
RowValues(b, cols, row) ==
    [i \in 1..Len(cols) |-> try_from_array(ColType(cols[i]), b.rows[row + 1][cols[i]])]

\* line 166 as a mutation point: a later row of the key replaces the indices
PutRowOverwrite(group_indices, key, row, group_values) ==
    MapPut(group_indices, key, [indices |-> <<row>>, values |-> group_values])

\* line 166 as a mutation point: a later row of the key goes to the front of
\* the indices
PutRowFront(group_indices, key, row, group_values) ==
    IF key \in DOMAIN group_indices
    THEN [group_indices EXCEPT ![key].indices = <<row>> \o @]
    ELSE MapPut(group_indices, key, [indices |-> <<row>>, values |-> group_values])

\* lines 160-168: first row of a key inserts (indices [row], its values),
\* a later row of the key pushes its index
PutRow(group_indices, key, row, group_values) ==
    IF key \in DOMAIN group_indices
    THEN [group_indices EXCEPT ![key].indices = Append(@, row)]
    ELSE MapPut(group_indices, key, [indices |-> <<row>>, values |-> group_values])

\* lines 150-169: one pass over the rows 0..num_rows-1 with one reused key
\* buffer
RECURSIVE MakeGroups(_, _, _, _, _)
MakeGroups(b, cols, row, group_key, group_indices) ==
    IF row >= num_rows(b) THEN group_indices
    ELSE LET key == RowKey(b, cols, row, ClearKey(group_key))
         IN MakeGroups(b, cols, row + 1, key,
                       PutRow(group_indices, key, row, RowValues(b, cols, row)))

\* lines 128-170 for one block
BlockGroups(b, cols) == MakeGroups(b, cols, 0, <<>>, EmptyMap)

(* --------------------------- aggregate functions ---------------------- *)
\* The aggregate expressions: column_name(), the function, and
\* to_aggregate_function_args()
CountStar == [name |-> "count(*)", func |-> "count", args |-> <<>>]

SumA == [name |-> "sum(A)", func |-> "sum", args |-> <<"A">>]

\* ExpressionAction::to_aggregate_function: a fresh accumulator
to_aggregate_function(expr) == [kind |-> expr.func, state |-> 0]

\* IAggreagteFunction::accumulate(columns, rows)
accumulate(func, columns, rows) ==
    IF func.kind = "count" THEN [func EXCEPT !.state = @ + rows]
    ELSE [func EXCEPT !.state = @ + SumSeq([i \in 1..Len(columns[1]) |-> columns[1][i].v])]

\* IAggreagteFunction::accumulate_result: the states of the accumulator
accumulate_result(func) == <<func.state>>

\* serde_json::to_string(&DataValue::Struct(x)): the text of the struct
to_string(x) == [json |-> "Struct", of |-> x]

(* ------------------------------ the upsert ---------------------------- *)
\* lines 188-193 / 204-210: every argument column is looked up by name in
\* the take block; one missing name is an error
args_present(take_block, args) == \A i \in 1..Len(args) : has_column(take_block, args[i])

arg_columns(take_block, args) == [i \in 1..Len(args) |-> column_by_name(take_block, args[i])]

\* line 194 as a mutation point: the new accumulator is pushed without
\* having accumulated the take block
NewSlotNoAccumulate(expr, take_block, rows) ==
    [func |-> to_aggregate_function(expr), name |-> expr.name, args |-> expr.args]

\* lines 184-196: one slot of a new group
NewSlot(expr, take_block, rows) ==
    [func |-> accumulate(to_aggregate_function(expr), arg_columns(take_block, expr.args), rows),
     name |-> expr.name, args |-> expr.args]

\* line 212 as a mutation point: the hit leaves the accumulator as it is
HitSlotSkip(slot, take_block, rows) == slot

\* line 212 as a mutation point: the hit starts the accumulator afresh
HitSlotReset(slot, take_block, rows) ==
    [slot EXCEPT !.func = accumulate([kind |-> slot.func.kind, state |-> 0],
                                     arg_columns(take_block, slot.args), rows)]

\* lines 204-212: one slot of an existing group accumulates in place
HitSlot(slot, take_block, rows) ==
    [slot EXCEPT !.func = accumulate(@, arg_columns(take_block, slot.args), rows)]

\* line 199: groups.insert(group_key, (aggr_funcs, values))
InsertGroup(groups, key, aggr_funcs, values) ==
    MapPut(groups, key, [funcs |-> aggr_funcs, values |-> values])

(* ------------------------------- state -------------------------------- *)
\* the operator instance (struct GroupByPartialTransform, lines 47-53); lock
\* is the state of the RwLock around groups
VARIABLES aggr_exprs, group_exprs, schema, input, groups, lock

\* one call of execute(): where it is, and its locals
VARIABLES pc, stream, block, group_indices, group_key, values, take_block,
          aggr_funcs, idx, fields, builders, group_key_builder, todo, result

\* the environment: how execute() is called (sched) and what is connected
\* as input (scenario)
VARIABLES sched, scenario

\* history: fed[key] is the number of rows with that key in the blocks
\* pulled so far, inserts[key] the number of times the key was inserted
VARIABLES fed, inserts

\* the layered catalog (struct DatabaseCatalog, lines 103-111): the state of
\* its two layers; and, of the operation called last, the request, the calls
\* it made on the layers, in order, and what it returned
VARIABLES immutable_catalog, mutable_catalog, request, calls, reply

catVars == <<immutable_catalog, mutable_catalog, request, calls, reply>>

instVars == <<aggr_exprs, group_exprs, schema, input>>

groupLocals == <<group_key, values, take_block, aggr_funcs, idx>>

drainLocals == <<fields, builders, group_key_builder, todo>>

\* what no step of execute() touches: the environment and the catalog
envVars == <<sched, scenario, catVars>>

vars == <<aggr_exprs, group_exprs, schema, input, groups, lock, pc, stream, block,
          group_indices, group_key, values, take_block, aggr_funcs, idx, fields,
          builders, group_key_builder, todo, result, sched, scenario, fed, inserts,
          immutable_catalog, mutable_catalog, request, calls, reply>>

DataField(name, type, nullable) == [name |-> name, type |-> type, nullable |-> nullable]

\* the schema the operator is created with
InputSchema == <<DataField("K", "Int8", TRUE), DataField("A", "Int8", FALSE)>>

NoBlock == [cols |-> {}, rows |-> <<>>]

NoStream == [kind |-> "none", items |-> <<>>, n |-> 0]

NoResult == [status |-> "none", cause |-> "", schema |-> <<>>, blocks |-> <<>>]

Ok(sch, blocks) == [status |-> "ok", cause |-> "", schema |-> sch, blocks |-> blocks]

Err(cause) == [status |-> "err", cause |-> cause, schema |-> <<>>, blocks |-> <<>>]

\* EmptyProcessor::create(), the input of a new operator (line 65): its
\* stream ends at once
EmptyProcessor == [kind |-> "script", items |-> <<>>]

Unlocked == [writer |-> 0, readers |-> {}]

\* a catalog layer: its databases (tenant, name) and tables (tenant,
\* database, name), and the dropped ones it can restore
EmptyLayer == [dbs |-> {}, dropped_dbs |-> {}, tables |-> {}, dropped_tables |-> {}]

NoRequest == <<"", "", "", "">>

NoReply == [status |-> "none", code |-> "", value |-> {}]

\* no catalog operation is called
NoCatalog ==
    /\ immutable_catalog = EmptyLayer
    /\ mutable_catalog = EmptyLayer
    /\ request = NoRequest
    /\ calls = <<>>
    /\ reply = NoReply

\* GroupByPartialTransform::create (lines 56-68): the table is empty and
\* unlocked; no call has any local yet
InitTable ==
    /\ schema = InputSchema
    /\ groups = EmptyMap
    /\ lock = Unlocked
    /\ group_indices = [p \in Procs |-> EmptyMap]
    /\ group_key = [p \in Procs |-> <<>>]
    /\ values = [p \in Procs |-> <<>>]
    /\ take_block = [p \in Procs |-> NoBlock]
    /\ aggr_funcs = [p \in Procs |-> <<>>]
    /\ idx = [p \in Procs |-> 0]
    /\ fields = [p \in Procs |-> <<>>]
    /\ builders = [p \in Procs |-> <<>>]
    /\ group_key_builder = [p \in Procs |-> <<>>]
    /\ todo = [p \in Procs |-> {}]
    /\ result = [p \in Procs |-> NoResult]
    /\ inserts = EmptyMap

\* a new operator for GROUP BY K with COUNT(*) and SUM(A), before any call
InitOperator ==
    /\ InitTable
    /\ aggr_exprs = <<CountStar, SumA>>
    /\ group_exprs = <<"K">>
    /\ input = EmptyProcessor
    /\ pc = [p \in Procs |-> "Idle"]
    /\ stream = [p \in Procs |-> NoStream]
    /\ block = [p \in Procs |-> NoBlock]
    /\ fed = EmptyMap

\* one call of execute() on the instance, input any upstream
Init == InitOperator /\ sched = "single" /\ scenario = "any" /\ NoCatalog

(* --------------------------- wiring and start ------------------------- *)
\* one block b as the stream of its first k rows, then the rest
SplitAt(b, k) ==
    <<[cols |-> b.cols, rows |-> SubSeq(b.rows, 1, k)],
      [cols |-> b.cols, rows |-> SubSeq(b.rows, k + 1, Len(b.rows))]>>

SplitBlocks == UNION {BlocksOver(cols, MaxRows + 1) : cols \in InputSchemas}

\* the block of the example in the comment of execute() (lines 90-118): A is
\* 1..5 and K, the group expression A % 3 evaluated upstream, is on the block
\* under the expression's column name
ScenarioABlock ==
    [cols |-> {"K", "A"},
     rows |-> [i \in 1..5 |-> [K |-> Cell(FALSE, i % 3), A |-> Cell(FALSE, i)]]]

\* what the pipeline may connect as input: a processor whose stream yields
\* any blocks (of the scenario's kind), or the two parts of one block
Upstreams ==
    IF scenario = "split"
    THEN UNION {{[kind |-> "script", items |-> SplitAt(b, k)] : k \in 0..Len(b.rows)} :
                b \in SplitBlocks}
    ELSE IF scenario = "A" THEN {[kind |-> "script", items |-> <<ScenarioABlock>>]}
    ELSE {[kind |-> scenario, items |-> <<>>]}

\* connect_to (lines 77-80); &mut self: no call of execute() is in flight
connect_to ==
    /\ input = EmptyProcessor
    /\ \A p \in Procs : pc[p] = "Idle"
    /\ \E u \in Upstreams : input' = u
    /\ UNCHANGED <<aggr_exprs, group_exprs, schema, groups, lock, pc, stream, block,
                   group_indices, groupLocals, drainLocals, result, envVars, fed, inserts>>

Terminal(p) == pc[p] \in {"Finished", "Failed"}

\* execute() is called (lines 119-124, up to the await of input.execute())
Execute(p) ==
    /\ pc[p] = "Idle"
    /\ \/ p = 1
       \/ sched = "conc"
       \/ sched = "reuse" /\ Terminal(1)
    /\ pc' = [pc EXCEPT ![p] = "AwaitInput"]
    /\ UNCHANGED <<instVars, groups, lock, stream, block, group_indices, groupLocals,
                   drainLocals, result, envVars, fed, inserts>>

\* the locals of a call are dropped when it returns (n, the number of blocks
\* it pulled, is kept as history)
DropLocals(p) ==
    /\ stream' = [stream EXCEPT ![p] = [NoStream EXCEPT !.n = stream[p].n]]
    /\ block' = [block EXCEPT ![p] = NoBlock]
    /\ group_indices' = [group_indices EXCEPT ![p] = EmptyMap]
    /\ group_key' = [group_key EXCEPT ![p] = <<>>]
    /\ values' = [values EXCEPT ![p] = <<>>]
    /\ take_block' = [take_block EXCEPT ![p] = NoBlock]
    /\ aggr_funcs' = [aggr_funcs EXCEPT ![p] = <<>>]
    /\ idx' = [idx EXCEPT ![p] = 0]
    /\ fields' = [fields EXCEPT ![p] = <<>>]
    /\ builders' = [builders EXCEPT ![p] = <<>>]
    /\ group_key_builder' = [group_key_builder EXCEPT ![p] = <<>>]
    /\ todo' = [todo EXCEPT ![p] = {}]

\* `?` as a mutation point: the error is dropped and the loop goes on to
\* the next block
FailSkip(p, cause) ==
    /\ pc' = [pc EXCEPT ![p] = "AwaitNext"]
    /\ result' = result
    /\ lock' = [writer |-> IF lock.writer = p THEN 0 ELSE lock.writer,
                readers |-> lock.readers \ {p}]
    /\ stream' = stream
    /\ block' = [block EXCEPT ![p] = NoBlock]
    /\ group_indices' = [group_indices EXCEPT ![p] = EmptyMap]
    /\ group_key' = [group_key EXCEPT ![p] = <<>>]
    /\ values' = [values EXCEPT ![p] = <<>>]
    /\ take_block' = [take_block EXCEPT ![p] = NoBlock]
    /\ aggr_funcs' = [aggr_funcs EXCEPT ![p] = <<>>]
    /\ idx' = [idx EXCEPT ![p] = 0]
    /\ fields' = [fields EXCEPT ![p] = <<>>]
    /\ builders' = [builders EXCEPT ![p] = <<>>]
    /\ group_key_builder' = [group_key_builder EXCEPT ![p] = <<>>]
    /\ todo' = [todo EXCEPT ![p] = {}]

\* an error leaves execute() through `?`: Err is returned, the locals (a
\* held lock guard among them) are dropped
Fail(p, cause) ==
    /\ pc' = [pc EXCEPT ![p] = "Failed"]
    /\ result' = [result EXCEPT ![p] = Err(cause)]
    /\ lock' = [writer |-> IF lock.writer = p THEN 0 ELSE lock.writer,
                readers |-> lock.readers \ {p}]
    /\ DropLocals(p)

\* line 124: input.execute().await is Ok(stream)
InputOk(p) ==
    /\ pc[p] = "AwaitInput"
    /\ stream' = [stream EXCEPT ![p] = [kind |-> input.kind, items |-> input.items, n |-> 0]]
    /\ pc' = [pc EXCEPT ![p] = "AwaitNext"]
    /\ UNCHANGED <<instVars, groups, lock, block, group_indices, groupLocals,
                   drainLocals, result, envVars, fed, inserts>>

\* line 124: input.execute().await is Err
InputErr(p) ==
    /\ pc[p] = "AwaitInput"
    /\ Fail(p, "input")
    /\ UNCHANGED <<instVars, groups, envVars, fed, inserts>>

(* ------------------------------ streaming ----------------------------- *)
\* history: the rows of a pulled block, counted under the key their
\* group-by values encode to
RECURSIVE CountRows(_, _, _, _)
CountRows(b, cols, row, m) ==
    IF row >= num_rows(b) THEN m
    ELSE LET key == RowKey(b, cols, row, <<>>)
         IN CountRows(b, cols, row + 1,
                      MapPut(m, key, IF key \in DOMAIN m THEN m[key] + 1 ELSE 1))

has_group_columns(b) == \A i \in 1..Len(group_exprs) : has_column(b, group_exprs[i])

\* the items stream.next() may yield now: any block while the stream is
\* open, or the next block of a scripted stream
NextBlocks(st) ==
    IF st.kind = "any" THEN (IF st.n < MaxBatches THEN Blocks ELSE {})
    ELSE IF st.kind = "shared" THEN (IF st.n < MaxSharedBatches THEN SharedBlocks ELSE {})
    ELSE IF st.items # <<>> THEN {Head(st.items)} ELSE {}

Advance(st) ==
    IF st.kind = "script" THEN [st EXCEPT !.items = Tail(@), !.n = @ + 1]
    ELSE [st EXCEPT !.n = @ + 1]

\* lines 126-127: stream.next().await is Some(Ok(block))
PullBlock(p) ==
    /\ pc[p] = "AwaitNext"
    /\ \E b \in NextBlocks(stream[p]) :
          /\ block' = [block EXCEPT ![p] = b]
          /\ fed' = IF has_group_columns(b) THEN CountRows(b, group_exprs, 0, fed) ELSE fed
    /\ stream' = [stream EXCEPT ![p] = Advance(@)]
    /\ pc' = [pc EXCEPT ![p] = "EvalGroup"]
    /\ UNCHANGED <<instVars, groups, lock, group_indices, groupLocals, drainLocals,
                   result, envVars, inserts>>

\* lines 126-127: stream.next().await is Some(Err): `block?` returns it
PullErr(p) ==
    /\ pc[p] = "AwaitNext"
    /\ stream[p].kind # "script" => NextBlocks(stream[p]) # {}
    /\ Fail(p, "upstream")
    /\ UNCHANGED <<instVars, groups, envVars, fed, inserts>>

\* line 126: stream.next().await is None, the loop ends
PullEnd(p) ==
    /\ pc[p] = "AwaitNext"
    /\ stream[p].kind = "script" => stream[p].items = <<>>
    /\ pc' = [pc EXCEPT ![p] = "CheckEmpty"]
    /\ UNCHANGED <<instVars, groups, lock, stream, block, group_indices, groupLocals,
                   drainLocals, result, envVars, fed, inserts>>

\* lines 128-170: the group columns are looked up and the rows of the block
\* are grouped by key
GroupRows(p) ==
    /\ pc[p] = "EvalGroup"
    /\ has_group_columns(block[p])
    /\ group_indices' = [group_indices EXCEPT ![p] = BlockGroups(block[p], group_exprs)]
    /\ pc' = [pc EXCEPT ![p] = "ForGroups"]
    /\ UNCHANGED <<instVars, groups, lock, stream, block, groupLocals, drainLocals,
                   result, envVars, fed, inserts>>

\* line 134: a group column is not in the block; lines 144, 156, 157: the
\* size or the encoding of a value is refused
GroupRowsErr(p) ==
    /\ pc[p] = "EvalGroup"
    /\ \E cause \in {"group_column", "group_key"} :
          /\ cause = "group_column" <=> ~has_group_columns(block[p])
          /\ Fail(p, cause)
    /\ UNCHANGED <<instVars, groups, envVars, fed, inserts>>

\* lines 174-176: the next local group, in the map's order, and its take
\* block
TakeBlock(p) ==
    /\ pc[p] = "ForGroups"
    /\ \E key \in DOMAIN group_indices[p] :
          /\ group_key' = [group_key EXCEPT ![p] = key]
          /\ values' = [values EXCEPT ![p] = group_indices[p][key].values]
          /\ take_block' = [take_block EXCEPT ![p] =
                              block_take_by_indices(block[p], group_indices[p][key].indices)]
          /\ group_indices' = [group_indices EXCEPT ![p] =
                                 [k \in (DOMAIN @) \ {key} |-> @[k]]]
    /\ pc' = [pc EXCEPT ![p] = "Lock"]
    /\ UNCHANGED <<instVars, groups, lock, stream, block, aggr_funcs, idx, drainLocals,
                   result, envVars, fed, inserts>>

\* line 175: block_take_by_indices is Err
TakeBlockErr(p) ==
    /\ pc[p] = "ForGroups"
    /\ DOMAIN group_indices[p] # {}
    /\ Fail(p, "take")
    /\ UNCHANGED <<instVars, groups, envVars, fed, inserts>>

\* line 174 as a mutation point: the loop over the local groups is left
\* while groups remain
BatchDoneEarly(p) ==
    /\ pc[p] = "ForGroups"
    /\ block' = [block EXCEPT ![p] = NoBlock]
    /\ pc' = [pc EXCEPT ![p] = "AwaitNext"]
    /\ UNCHANGED <<instVars, groups, lock, stream, group_indices, groupLocals,
                   drainLocals, result, envVars, fed, inserts>>

\* line 174 has no group left: the body of the while loop ends (line 218)
BatchDone(p) ==
    /\ pc[p] = "ForGroups"
    /\ DOMAIN group_indices[p] = {}
    /\ block' = [block EXCEPT ![p] = NoBlock]
    /\ pc' = [pc EXCEPT ![p] = "AwaitNext"]
    /\ UNCHANGED <<instVars, groups, lock, stream, group_indices, groupLocals,
                   drainLocals, result, envVars, fed, inserts>>

\* line 176 as a mutation point: the row count is that of the whole block
rowsOfBlock(p) == num_rows(block[p])

\* line 176: let rows = take_block.num_rows()
rows(p) == num_rows(take_block[p])

\* line 216 as a mutation point: the write guard outlives the iteration
EndGroupKeepGuard(p) ==
    /\ lock' = lock
    /\ group_key' = [group_key EXCEPT ![p] = <<>>]
    /\ values' = [values EXCEPT ![p] = <<>>]
    /\ take_block' = [take_block EXCEPT ![p] = NoBlock]
    /\ aggr_funcs' = [aggr_funcs EXCEPT ![p] = <<>>]
    /\ idx' = [idx EXCEPT ![p] = 0]
    /\ pc' = [pc EXCEPT ![p] = "ForGroups"]

\* the end of one iteration of the loop of line 174: the write guard and
\* the take block are dropped (line 216)
EndGroup(p) ==
    /\ lock' = [lock EXCEPT !.writer = 0]
    /\ group_key' = [group_key EXCEPT ![p] = <<>>]
    /\ values' = [values EXCEPT ![p] = <<>>]
    /\ take_block' = [take_block EXCEPT ![p] = NoBlock]
    /\ aggr_funcs' = [aggr_funcs EXCEPT ![p] = <<>>]
    /\ idx' = [idx EXCEPT ![p] = 0]
    /\ pc' = [pc EXCEPT ![p] = "ForGroups"]

\* line 179 as a mutation point: the lookup never finds the key
FoundNever(key) == FALSE

\* line 179: groups.get_mut(&group_key) is Some
Found(key) == key \in DOMAIN groups

\* line 178 as a mutation point: the table is entered without waiting for
\* the lock
LockGroupsUnguarded(p) ==
    /\ pc[p] = "Lock"
    /\ lock' = [lock EXCEPT !.writer = p]
    /\ IF Found(group_key[p])
       THEN pc' = [pc EXCEPT ![p] = "Hit"] /\ idx' = [idx EXCEPT ![p] = 1]
       ELSE pc' = [pc EXCEPT ![p] = "Miss"] /\ idx' = idx
    /\ UNCHANGED <<instVars, groups, stream, block, group_indices, group_key, values,
                   take_block, aggr_funcs, drainLocals, result, envVars, fed, inserts>>

\* lines 178-179: the write lock is taken and the key looked up
LockGroups(p) ==
    /\ pc[p] = "Lock"
    /\ lock = Unlocked
    /\ lock' = [lock EXCEPT !.writer = p]
    /\ IF Found(group_key[p])
       THEN pc' = [pc EXCEPT ![p] = "Hit"] /\ idx' = [idx EXCEPT ![p] = 1]
       ELSE pc' = [pc EXCEPT ![p] = "Miss"] /\ idx' = idx
    /\ UNCHANGED <<instVars, groups, stream, block, group_indices, group_key, values,
                   take_block, aggr_funcs, drainLocals, result, envVars, fed, inserts>>

\* lines 183-197, one aggregate expression of a new group: the function is
\* made, accumulates the take block and is pushed to aggr_funcs
AccumulateNew(p) ==
    /\ pc[p] = "Miss"
    /\ Len(aggr_funcs[p]) < Len(aggr_exprs)
    /\ LET expr == aggr_exprs[Len(aggr_funcs[p]) + 1]
       IN /\ args_present(take_block[p], expr.args)
          /\ aggr_funcs' = [aggr_funcs EXCEPT ![p] =
                              Append(@, NewSlot(expr, take_block[p], rows(p)))]
    /\ UNCHANGED <<instVars, groups, lock, pc, stream, block, group_indices, group_key,
                   values, take_block, idx, drainLocals, result, envVars, fed, inserts>>

\* lines 184, 186, 191, 194: the function cannot be made, an argument column
\* is not in the take block, or accumulate is Err
AccumulateNewErr(p) ==
    /\ pc[p] = "Miss"
    /\ Len(aggr_funcs[p]) < Len(aggr_exprs)
    /\ \E cause \in {"arg_column", "function"} :
          /\ cause = "arg_column" =>
                ~args_present(take_block[p], aggr_exprs[Len(aggr_funcs[p]) + 1].args)
          /\ Fail(p, cause)
    /\ UNCHANGED <<instVars, groups, envVars, fed, inserts>>

Bump(m, k) == MapPut(m, k, IF k \in DOMAIN m THEN m[k] + 1 ELSE 1)

\* line 199: the new group is inserted; line 216: the iteration ends
InsertNew(p) ==
    /\ pc[p] = "Miss"
    /\ Len(aggr_funcs[p]) = Len(aggr_exprs)
    /\ groups' = InsertGroup(groups, group_key[p], aggr_funcs[p], values[p])
    /\ inserts' = Bump(inserts, group_key[p])
    /\ EndGroup(p)
    /\ UNCHANGED <<instVars, stream, block, group_indices, drainLocals, result,
                   envVars, fed>>

\* lines 203-213, one slot of the group found: it accumulates the take block
\* in place
AccumulateHit(p) ==
    /\ pc[p] = "Hit"
    /\ idx[p] <= Len(groups[group_key[p]].funcs)
    /\ args_present(take_block[p], groups[group_key[p]].funcs[idx[p]].args)
    /\ groups' = [groups EXCEPT ![group_key[p]].funcs[idx[p]] =
                     HitSlot(@, take_block[p], rows(p))]
    /\ idx' = [idx EXCEPT ![p] = @ + 1]
    /\ UNCHANGED <<instVars, lock, pc, stream, block, group_indices, group_key, values,
                   take_block, aggr_funcs, drainLocals, result, envVars, fed, inserts>>

\* lines 208, 212: an argument column is not in the take block, or
\* accumulate is Err
AccumulateHitErr(p) ==
    /\ pc[p] = "Hit"
    /\ idx[p] <= Len(groups[group_key[p]].funcs)
    /\ \E cause \in {"arg_column", "function"} :
          /\ cause = "arg_column" =>
                ~args_present(take_block[p], groups[group_key[p]].funcs[idx[p]].args)
          /\ Fail(p, cause)
    /\ UNCHANGED <<instVars, groups, envVars, fed, inserts>>

\* line 213: the slots are done; line 216: the iteration ends
HitEnd(p) ==
    /\ pc[p] = "Hit"
    /\ idx[p] > Len(groups[group_key[p]].funcs)
    /\ EndGroup(p)
    /\ UNCHANGED <<instVars, groups, stream, block, group_indices, drainLocals, result,
                   envVars, fed, inserts>>

(* ------------------------------- draining ----------------------------- *)
\* lines 221-225 as a mutation point: the stream has the operator's schema
EmptyStreamOfSchema == Ok(schema, <<>>)

\* lines 221-225: DataBlockStream::create(empty schema, None, vec![])
EmptyStream == Ok(<<>>, <<>>)

\* lines 220-226: under a read guard that lives for the condition only,
\* the table is empty: an empty stream with an empty schema is returned
ReturnEmpty(p) ==
    /\ pc[p] = "CheckEmpty"
    /\ lock.writer = 0
    /\ DOMAIN groups = {}
    /\ pc' = [pc EXCEPT ![p] = "Finished"]
    /\ result' = [result EXCEPT ![p] = EmptyStream]
    /\ DropLocals(p)
    /\ UNCHANGED <<instVars, groups, lock, envVars, fed, inserts>>

\* line 220: the table is not empty; the read guard of the condition is
\* dropped
NotEmpty(p) ==
    /\ pc[p] = "CheckEmpty"
    /\ lock.writer = 0
    /\ DOMAIN groups # {}
    /\ pc' = [pc EXCEPT ![p] = "ReadLock"]
    /\ UNCHANGED <<instVars, groups, lock, stream, block, group_indices, groupLocals,
                   drainLocals, result, envVars, fed, inserts>>

\* line 231: the read lock is taken, and held to the end of execute()
ReadLock(p) ==
    /\ pc[p] = "ReadLock"
    /\ lock.writer = 0
    /\ lock' = [lock EXCEPT !.readers = @ \cup {p}]
    /\ pc' = [pc EXCEPT ![p] = "Fields"]
    /\ UNCHANGED <<instVars, groups, stream, block, group_indices, groupLocals,
                   drainLocals, result, envVars, fed, inserts>>

\* ExpressionAction::to_data_field(&schema) of a group expression
to_data_field(name) == DataField(name, ColType(name), TRUE)

\* lines 245-247: one field per group expression
GroupFields == [i \in 1..Len(group_exprs) |-> to_data_field(group_exprs[i])]

\* lines 249-254: one Utf8 field per slot of the entry iterated first
AggrFields(funcs) == [i \in 1..Len(funcs) |-> DataField(funcs[i].name, "Utf8", FALSE)]

\* lines 237-262
MakeFieldsOf(funcs) ==
    GroupFields \o AggrFields(funcs)
        \o <<DataField("_group_keys", "Struct", FALSE),
             DataField("_group_by_key", "Binary", FALSE)>>

\* lines 237-269: the fields, from the entry the iteration yields first,
\* and the empty builders
MakeFields(p) ==
    /\ pc[p] = "Fields"
    /\ \/ /\ DOMAIN groups = {}
          /\ fields' = [fields EXCEPT ![p] = MakeFieldsOf(<<>>)]
       \/ \E first \in DOMAIN groups :
             fields' = [fields EXCEPT ![p] = MakeFieldsOf(groups[first].funcs)]
    /\ builders' = [builders EXCEPT ![p] = [i \in 1..(1 + Len(aggr_exprs)) |-> <<>>]]
    /\ group_key_builder' = [group_key_builder EXCEPT ![p] = <<>>]
    /\ todo' = [todo EXCEPT ![p] = DOMAIN groups]
    /\ pc' = [pc EXCEPT ![p] = "Drain"]
    /\ UNCHANGED <<instVars, groups, lock, stream, block, group_indices, groupLocals,
                   result, envVars, fed, inserts>>

\* line 273 as a mutation point: every builder receives the state of the
\* first slot
AppendEntryFirstSlot(bs, entry) ==
    [i \in 1..Len(bs) |->
        IF i <= Len(entry.funcs)
        THEN Append(bs[i], to_string(accumulate_result(entry.funcs[1].func)))
        ELSE Append(bs[i], to_string(entry.values))]

\* lines 271-278: the values one entry appends to the builders: the state of
\* slot i to builder i, the key values to builder aggr_len
AppendEntry(bs, entry) ==
    [i \in 1..Len(bs) |->
        IF i <= Len(entry.funcs) /\ i = Len(aggr_exprs) + 1
        THEN bs[i] \o <<to_string(accumulate_result(entry.funcs[i].func)),
                        to_string(entry.values)>>
        ELSE IF i <= Len(entry.funcs)
        THEN Append(bs[i], to_string(accumulate_result(entry.funcs[i].func)))
        ELSE IF i = Len(aggr_exprs) + 1 THEN Append(bs[i], to_string(entry.values))
        ELSE bs[i]]

\* lines 270-281, one entry of the table, in the map's order
DrainEntry(p) ==
    /\ pc[p] = "Drain"
    /\ \E key \in todo[p] :
          /\ Len(groups[key].funcs) <= Len(builders[p])
          /\ builders' = [builders EXCEPT ![p] = AppendEntry(@, groups[key])]
          /\ group_key_builder' = [group_key_builder EXCEPT ![p] = Append(@, key)]
          /\ todo' = [todo EXCEPT ![p] = @ \ {key}]
    /\ UNCHANGED <<instVars, groups, lock, pc, stream, block, group_indices, groupLocals,
                   fields, result, envVars, fed, inserts>>

\* lines 243, 246: to_data_field is Err; lines 272-280: accumulate_result,
\* the serialization or an append is Err
DrainErr(p) ==
    /\ \/ pc[p] = "Fields"
       \/ pc[p] = "Drain" /\ todo[p] # {}
    /\ Fail(p, "drain")
    /\ UNCHANGED <<instVars, groups, envVars, fed, inserts>>

\* DataBlock::create(schema, columns)
DataBlock(sch, columns) == [schema |-> sch, columns |-> columns]

\* lines 283-297: the columns are the finished builders and the key
\* builder; one block is returned in a stream of the operator's schema
Finish(p) ==
    /\ pc[p] = "Drain"
    /\ todo[p] = {}
    /\ result' = [result EXCEPT ![p] =
                    Ok(schema, <<DataBlock(fields[p],
                                           Append(builders[p], group_key_builder[p]))>>)]
    /\ lock' = [lock EXCEPT !.readers = @ \ {p}]
    /\ pc' = [pc EXCEPT ![p] = "Finished"]
    /\ DropLocals(p)
    /\ UNCHANGED <<instVars, groups, envVars, fed, inserts>>

(* ---------------------------- specification --------------------------- *)
Next ==
    \/ connect_to
    \/ \E p \in Procs : Execute(p)
    \/ \E p \in Procs : InputOk(p)
    \/ \E p \in Procs : InputErr(p)
    \/ \E p \in Procs : PullBlock(p)
    \/ \E p \in Procs : PullErr(p)
    \/ \E p \in Procs : PullEnd(p)
    \/ \E p \in Procs : GroupRows(p)
    \/ \E p \in Procs : GroupRowsErr(p)
    \/ \E p \in Procs : TakeBlock(p)
    \/ \E p \in Procs : TakeBlockErr(p)
    \/ \E p \in Procs : BatchDone(p)
    \/ \E p \in Procs : LockGroups(p)
    \/ \E p \in Procs : AccumulateNew(p)
    \/ \E p \in Procs : AccumulateNewErr(p)
    \/ \E p \in Procs : InsertNew(p)
    \/ \E p \in Procs : AccumulateHit(p)
    \/ \E p \in Procs : AccumulateHitErr(p)
    \/ \E p \in Procs : HitEnd(p)
    \/ \E p \in Procs : ReturnEmpty(p)
    \/ \E p \in Procs : NotEmpty(p)
    \/ \E p \in Procs : ReadLock(p)
    \/ \E p \in Procs : MakeFields(p)
    \/ \E p \in Procs : DrainEntry(p)
    \/ \E p \in Procs : DrainErr(p)
    \/ \E p \in Procs : Finish(p)

Spec == Init /\ [][Next]_vars

\* a further call of execute() on the instance once the first has returned
InitReuse == InitOperator /\ sched = "reuse" /\ scenario = "shared" /\ NoCatalog

SpecReuse == InitReuse /\ [][Next]_vars

\* one call of execute() on the stream of the two parts of one block
InitSplit == InitOperator /\ sched = "single" /\ scenario = "split" /\ NoCatalog

SpecSplit == InitSplit /\ [][Next]_vars

\* two calls of execute() on the instance at the same time
InitConc == InitOperator /\ sched = "conc" /\ scenario = "shared" /\ NoCatalog

SpecConc == InitConc /\ [][Next]_vars

\* the example of lines 90-118: a new operator for GROUP BY A % 3 with
\* SUM(A), one call of execute(), the one block as input
InitScenarioA ==
    /\ InitTable
    /\ aggr_exprs = <<SumA>>
    /\ group_exprs = <<"K">>
    /\ input = EmptyProcessor
    /\ pc = [p \in Procs |-> "Idle"]
    /\ stream = [p \in Procs |-> NoStream]
    /\ block = [p \in Procs |-> NoBlock]
    /\ fed = EmptyMap
    /\ sched = "single"
    /\ scenario = "A"
    /\ NoCatalog

\* the steps of one call on a new operator with one block: every local
\* group is a new one
NextScenarioA ==
    \/ connect_to
    \/ \E p \in Procs : Execute(p)
    \/ \E p \in Procs : InputOk(p)
    \/ \E p \in Procs : InputErr(p)
    \/ \E p \in Procs : PullBlock(p)
    \/ \E p \in Procs : PullErr(p)
    \/ \E p \in Procs : PullEnd(p)
    \/ \E p \in Procs : GroupRows(p)
    \/ \E p \in Procs : GroupRowsErr(p)
    \/ \E p \in Procs : TakeBlock(p)
    \/ \E p \in Procs : TakeBlockErr(p)
    \/ \E p \in Procs : BatchDone(p)
    \/ \E p \in Procs : LockGroups(p)
    \/ \E p \in Procs : AccumulateNew(p)
    \/ \E p \in Procs : AccumulateNewErr(p)
    \/ \E p \in Procs : InsertNew(p)
    \/ \E p \in Procs : ReturnEmpty(p)
    \/ \E p \in Procs : NotEmpty(p)
    \/ \E p \in Procs : ReadLock(p)
    \/ \E p \in Procs : MakeFields(p)
    \/ \E p \in Procs : DrainEntry(p)
    \/ \E p \in Procs : DrainErr(p)
    \/ \E p \in Procs : Finish(p)

SpecScenarioA == InitScenarioA /\ [][NextScenarioA]_vars

(* ------------------------- the group key alone ------------------------ *)
\* the group expressions and the two-row blocks the key is built for
KeyGroupExprs == {<<"K">>, <<"S1", "S2">>, <<"S1", "K">>, <<"K", "S1", "S2">>}

KeyBlocks == {[cols |-> {"K", "S1", "S2"}, rows |-> r] :
              r \in [1..2 -> RowsOver({"K", "S1", "S2"})]}

\* execute() has pulled one block of two rows and is about to group them
InitKey ==
    /\ InitTable
    /\ aggr_exprs = <<CountStar>>
    /\ group_exprs \in KeyGroupExprs
    /\ \E b \in KeyBlocks :
          /\ input = [kind |-> "script", items |-> <<b>>]
          /\ block = [p \in Procs |-> IF p = 1 THEN b ELSE NoBlock]
          /\ fed = CountRows(b, group_exprs, 0, EmptyMap)
    /\ pc = [p \in Procs |-> IF p = 1 THEN "EvalGroup" ELSE "Idle"]
    /\ stream = [p \in Procs |-> IF p = 1 THEN [kind |-> "script", items |-> <<>>, n |-> 1]
                                 ELSE NoStream]
    /\ sched = "single"
    /\ scenario = "key"
    /\ NoCatalog

NextKey == \E p \in Procs : GroupRows(p)

SpecKey == InitKey /\ [][NextKey]_vars

(* --------------------------- the layered catalog ---------------------- *)
\* the tenants, database names and table names of the requests; "" is the
\* empty tenant
Tenants == {"", "t1"}

DbNames == {"system", "db1"}

TableNames == {"tb"}

\* all variables of the operator: no catalog operation touches them
opVars == <<aggr_exprs, group_exprs, schema, input, groups, lock, pc, stream, block,
            group_indices, group_key, values, take_block, aggr_funcs, idx, fields,
            builders, group_key_builder, todo, result, sched, scenario, fed, inserts>>

\* ErrorCode::UNKNOWN_DATABASE, ErrorCode::UNKNOWN_TABLE
UNKNOWN_DATABASE == "UnknownDatabase"

UNKNOWN_TABLE == "UnknownTable"

\* Result: Ok(value), the value a set of entries tagged with the layer they
\* come from, or Err(code)
CatOk(v) == [status |-> "ok", code |-> "", value |-> v]

CatErr(code) == [status |-> "err", code |-> code, value |-> {}]

\* Catalog::exists_database of a layer: Ok(true), Ok(false) or an error
exists_database(layer, c, tenant, db_name) ==
    {CatOk(IF <<tenant, db_name>> \in c.dbs THEN {<<layer, tenant, db_name>>} ELSE {}),
     CatErr("Internal")}

\* Catalog::get_database of a layer
layer_get_database(layer, c, tenant, db_name) ==
    {IF <<tenant, db_name>> \in c.dbs THEN CatOk({<<layer, tenant, db_name>>})
     ELSE CatErr(UNKNOWN_DATABASE),
     CatErr("Internal")}

\* Catalog::get_table of a layer
layer_get_table(layer, c, tenant, db_name, table_name) ==
    {IF <<tenant, db_name>> \notin c.dbs THEN CatErr(UNKNOWN_DATABASE)
     ELSE IF <<tenant, db_name, table_name>> \in c.tables
     THEN CatOk({<<layer, tenant, db_name, table_name>>})
     ELSE CatErr(UNKNOWN_TABLE)}

TablesOf(layer, tables, tenant, db_name) ==
    {<<layer, t[1], t[2], t[3]>> : t \in {x \in tables : x[1] = tenant /\ x[2] = db_name}}

\* Catalog::list_tables and list_tables_history of a layer
layer_list_tables(layer, c, tenant, db_name) ==
    {IF <<tenant, db_name>> \notin c.dbs THEN CatErr(UNKNOWN_DATABASE)
     ELSE CatOk(TablesOf(layer, c.tables, tenant, db_name))}

layer_list_tables_history(layer, c, tenant, db_name) ==
    {IF <<tenant, db_name>> \notin c.dbs THEN CatErr(UNKNOWN_DATABASE)
     ELSE CatOk(TablesOf(layer, c.tables \cup c.dropped_tables, tenant, db_name))}

\* a write operation called on a layer returns a reply and leaves the layer
\* in a new state
Written(r, c) == [reply |-> r, catalog |-> c]

\* the upper layer is read only: a write called on it is refused
immutable_write(c) == {Written(CatErr("Unimplemented"), c)}

\* the branch taken on the upper layer's error (lines 170, 324, 352, 378) as
\* a mutation point: every error falls through to the bottom layer
IsAnyError(e) == e.status = "err"

\* lines 170, 324, 352, 378: e.code() == ErrorCode::UNKNOWN_DATABASE
IsUnknownDatabase(e) == e.status = "err" /\ e.code = UNKNOWN_DATABASE

\* the tenant check as a mutation point: no tenant is refused
tenant_is_emptyNever(tenant) == FALSE

\* lines 162, 183, 197, 220, 240, 316, 342, 367, 393, 418, 437, 456, 482:
\* tenant.is_empty()
tenant_is_empty(tenant) == tenant = ""

\* what an operation leaves behind: its request, its reply and the calls it
\* made on the layers
Return(req, r, cs) ==
    /\ request' = req
    /\ reply' = r
    /\ calls' = cs

\* the reads of lines 167-178, 318-337, 348-359, 374-388: the upper layer
\* first; the bottom layer if the upper layer does not know the database
ReadThrough(req, op, upper, bottom) ==
    /\ IF tenant_is_empty(req[2]) THEN Return(req, CatErr("TenantIsEmpty"), <<>>)
       ELSE \E r \in upper :
               IF IsUnknownDatabase(r)
               THEN \E r2 \in bottom :
                       Return(req, r2, <<<<"immutable", op>>, <<"mutable", op>>>>)
               ELSE Return(req, r, <<<<"immutable", op>>>>)
    /\ UNCHANGED <<immutable_catalog, mutable_catalog, opVars>>

\* lines 160-179
get_database(tenant, db_name) ==
    ReadThrough(<<"get_database", tenant, db_name, "">>, "get_database",
                layer_get_database("immutable", immutable_catalog, tenant, db_name),
                layer_get_database("mutable", mutable_catalog, tenant, db_name))

\* lines 309-338
get_table(tenant, db_name, table_name) ==
    ReadThrough(<<"get_table", tenant, db_name, table_name>>, "get_table",
                layer_get_table("immutable", immutable_catalog, tenant, db_name, table_name),
                layer_get_table("mutable", mutable_catalog, tenant, db_name, table_name))

\* lines 340-360
list_tables(tenant, db_name) ==
    ReadThrough(<<"list_tables", tenant, db_name, "">>, "list_tables",
                layer_list_tables("immutable", immutable_catalog, tenant, db_name),
                layer_list_tables("mutable", mutable_catalog, tenant, db_name))

\* lines 362-389
list_tables_history(tenant, db_name) ==
    ReadThrough(<<"list_tables_history", tenant, db_name, "">>, "list_tables_history",
                layer_list_tables_history("immutable", immutable_catalog, tenant, db_name),
                layer_list_tables_history("mutable", mutable_catalog, tenant, db_name))

\* the write operations of the bottom layer: the reply and the layer after
mutable_create_database(c, tenant, db_name) ==
    IF <<tenant, db_name>> \in c.dbs
    THEN {Written(CatErr("DatabaseAlreadyExists"), c)}
    ELSE {Written(CatOk({<<"mutable", tenant, db_name>>}),
                  [c EXCEPT !.dbs = @ \cup {<<tenant, db_name>>}])}

mutable_drop_database(c, tenant, db_name) ==
    IF <<tenant, db_name>> \notin c.dbs
    THEN {Written(CatErr(UNKNOWN_DATABASE), c)}
    ELSE {Written(CatOk({}),
                  [c EXCEPT !.dbs = @ \ {<<tenant, db_name>>},
                            !.dropped_dbs = @ \cup {<<tenant, db_name>>}])}

\* the tables of a set under the new name of their database
Moved(tables, tenant, db_name, new_db_name) ==
    {IF x[1] = tenant /\ x[2] = db_name THEN <<tenant, new_db_name, x[3]>> ELSE x : x \in tables}

mutable_rename_database(c, tenant, db_name, new_db_name) ==
    IF <<tenant, db_name>> \notin c.dbs THEN {Written(CatErr(UNKNOWN_DATABASE), c)}
    ELSE IF <<tenant, new_db_name>> \in c.dbs
    THEN {Written(CatErr("DatabaseAlreadyExists"), c)}
    ELSE {Written(CatOk({}),
                  [c EXCEPT !.dbs = (@ \ {<<tenant, db_name>>}) \cup {<<tenant, new_db_name>>},
                            !.tables = Moved(@, tenant, db_name, new_db_name),
                            !.dropped_tables = Moved(@, tenant, db_name, new_db_name)])}

mutable_undrop_database(c, tenant, db_name) ==
    IF <<tenant, db_name>> \in c.dbs
    THEN {Written(CatErr("DatabaseAlreadyExists"), c)}
    ELSE IF <<tenant, db_name>> \notin c.dropped_dbs
    THEN {Written(CatErr("UndropDbHasNoHistory"), c)}
    ELSE {Written(CatOk({}),
                  [c EXCEPT !.dbs = @ \cup {<<tenant, db_name>>},
                            !.dropped_dbs = @ \ {<<tenant, db_name>>}])}

mutable_create_table(c, tenant, db_name, table_name) ==
    IF <<tenant, db_name>> \notin c.dbs THEN {Written(CatErr(UNKNOWN_DATABASE), c)}
    ELSE IF <<tenant, db_name, table_name>> \in c.tables
    THEN {Written(CatErr("TableAlreadyExists"), c)}
    ELSE {Written(CatOk({<<"mutable", tenant, db_name, table_name>>}),
                  [c EXCEPT !.tables = @ \cup {<<tenant, db_name, table_name>>}])}

mutable_drop_table_by_id(c, id) ==
    IF id \notin c.tables THEN {Written(CatErr(UNKNOWN_TABLE), c)}
    ELSE {Written(CatOk({}),
                  [c EXCEPT !.tables = @ \ {id}, !.dropped_tables = @ \cup {id}])}

mutable_undrop_table(c, tenant, db_name, table_name) ==
    IF <<tenant, db_name>> \notin c.dbs THEN {Written(CatErr(UNKNOWN_DATABASE), c)}
    ELSE IF <<tenant, db_name, table_name>> \in c.tables
    THEN {Written(CatErr("UndropTableAlreadyExists"), c)}
    ELSE IF <<tenant, db_name, table_name>> \notin c.dropped_tables
    THEN {Written(CatErr("UndropTableHasNoHistory"), c)}
    ELSE {Written(CatOk({}),
                  [c EXCEPT !.tables = @ \cup {<<tenant, db_name, table_name>>},
                            !.dropped_tables = @ \ {<<tenant, db_name, table_name>>}])}

\* exists_database(..).await? as a mutation point: never true
InUpperNever(e) == FALSE

\* lines 204-208, 228-232, 246-254, 399-403, 424-428, 442-446: the upper
\* layer's exists_database(..).await? is true
InUpper(e) == e.status = "ok" /\ e.value # {}

\* the call of exists_database on the upper layer
ExistsCall == <<"immutable", "exists_database">>

\* lines 195-216
create_database(tenant, db_name) ==
    LET req == <<"create_database", tenant, db_name, "">>
    IN /\ IF tenant_is_empty(tenant)
          THEN Return(req, CatErr("TenantIsEmpty"), <<>>) /\ mutable_catalog' = mutable_catalog
          ELSE \E e \in exists_database("immutable", immutable_catalog, tenant, db_name) :
                  IF e.status = "err"
                  THEN Return(req, e, <<ExistsCall>>) /\ mutable_catalog' = mutable_catalog
                  ELSE IF InUpper(e)
                  THEN /\ Return(req, CatErr("DatabaseAlreadyExists"), <<ExistsCall>>)
                       /\ mutable_catalog' = mutable_catalog
                  ELSE \E w \in mutable_create_database(mutable_catalog, tenant, db_name) :
                          /\ Return(req, w.reply, <<ExistsCall, <<"mutable", "create_database">>>>)
                          /\ mutable_catalog' = w.catalog
       /\ UNCHANGED <<immutable_catalog, opVars>>

\* lines 227-234, 398-406, 423-431, 441-449: the write is called on the
\* upper layer if the database exists there, on the bottom layer if not
Dispatch(req, op, upper, bottom) ==
    /\ IF tenant_is_empty(req[2])
       THEN /\ Return(req, CatErr("TenantIsEmpty"), <<>>)
            /\ UNCHANGED <<immutable_catalog, mutable_catalog>>
       ELSE \E e \in exists_database("immutable", immutable_catalog, req[2], req[3]) :
               IF e.status = "err"
               THEN /\ Return(req, e, <<ExistsCall>>)
                    /\ UNCHANGED <<immutable_catalog, mutable_catalog>>
               ELSE IF InUpper(e)
               THEN \E w \in upper :
                       /\ Return(req, w.reply, <<ExistsCall, <<"immutable", op>>>>)
                       /\ immutable_catalog' = w.catalog
                       /\ mutable_catalog' = mutable_catalog
               ELSE \E w \in bottom :
                       /\ Return(req, w.reply, <<ExistsCall, <<"mutable", op>>>>)
                       /\ mutable_catalog' = w.catalog
                       /\ immutable_catalog' = immutable_catalog
    /\ UNCHANGED opVars

\* lines 218-235
drop_database(tenant, db_name) ==
    Dispatch(<<"drop_database", tenant, db_name, "">>, "drop_database",
             immutable_write(immutable_catalog),
             mutable_drop_database(mutable_catalog, tenant, db_name))

\* lines 237-260: the upper layer is asked for the database, and if it is
\* not there for the new name
rename_database(tenant, db_name, new_db_name) ==
    LET req == <<"rename_database", tenant, db_name, new_db_name>>
        op == "rename_database"
    IN /\ IF tenant_is_empty(tenant)
          THEN /\ Return(req, CatErr("TenantIsEmpty"), <<>>)
               /\ UNCHANGED <<immutable_catalog, mutable_catalog>>
          ELSE \E e \in exists_database("immutable", immutable_catalog, tenant, db_name) :
                  IF e.status = "err"
                  THEN /\ Return(req, e, <<ExistsCall>>)
                       /\ UNCHANGED <<immutable_catalog, mutable_catalog>>
                  ELSE IF InUpper(e)
                  THEN \E w \in immutable_write(immutable_catalog) :
                          /\ Return(req, w.reply, <<ExistsCall, <<"immutable", op>>>>)
                          /\ immutable_catalog' = w.catalog
                          /\ mutable_catalog' = mutable_catalog
                  ELSE \E e2 \in exists_database("immutable", immutable_catalog,
                                                 tenant, new_db_name) :
                          IF e2.status = "err"
                          THEN /\ Return(req, e2, <<ExistsCall, ExistsCall>>)
                               /\ UNCHANGED <<immutable_catalog, mutable_catalog>>
                          ELSE IF InUpper(e2)
                          THEN \E w \in immutable_write(immutable_catalog) :
                                  /\ Return(req, w.reply,
                                            <<ExistsCall, ExistsCall, <<"immutable", op>>>>)
                                  /\ immutable_catalog' = w.catalog
                                  /\ mutable_catalog' = mutable_catalog
                          ELSE \E w \in mutable_rename_database(mutable_catalog, tenant,
                                                                db_name, new_db_name) :
                                  /\ Return(req, w.reply,
                                            <<ExistsCall, ExistsCall, <<"mutable", op>>>>)
                                  /\ mutable_catalog' = w.catalog
                                  /\ immutable_catalog' = immutable_catalog
       /\ UNCHANGED opVars

\* lines 391-408
create_table(tenant, db_name, table_name) ==
    Dispatch(<<"create_table", tenant, db_name, table_name>>, "create_table",
             immutable_write(immutable_catalog),
             mutable_create_table(mutable_catalog, tenant, db_name, table_name))

\* lines 410-414: no tenant check, the bottom layer only
drop_table_by_id(id) ==
    /\ \E w \in mutable_drop_table_by_id(mutable_catalog, id) :
          /\ Return(<<"drop_table_by_id", id[1], id[2], id[3]>>, w.reply,
                    <<<<"mutable", "drop_table_by_id">>>>)
          /\ mutable_catalog' = w.catalog
    /\ UNCHANGED <<immutable_catalog, opVars>>

\* lines 416-433
undrop_table(tenant, db_name, table_name) ==
    Dispatch(<<"undrop_table", tenant, db_name, table_name>>, "undrop_table",
             immutable_write(immutable_catalog),
             mutable_undrop_table(mutable_catalog, tenant, db_name, table_name))

\* lines 435-452
undrop_database(tenant, db_name) ==
    Dispatch(<<"undrop_database", tenant, db_name, "">>, "undrop_database",
             immutable_write(immutable_catalog),
             mutable_undrop_database(mutable_catalog, tenant, db_name))

\* Catalog::list_databases of a layer
layer_list_databases(layer, c, tenant) ==
    {CatOk({<<layer, d[1], d[2]>> : d \in {x \in c.dbs : x[1] = tenant}}),
     CatErr("Internal")}

\* lines 181-193: the databases of the upper layer, then those of the
\* bottom layer
list_databases(tenant) ==
    LET req == <<"list_databases", tenant, "", "">>
        op == "list_databases"
    IN /\ IF tenant_is_empty(tenant) THEN Return(req, CatErr("TenantIsEmpty"), <<>>)
          ELSE \E dbs \in layer_list_databases("immutable", immutable_catalog, tenant) :
                  IF dbs.status = "err" THEN Return(req, dbs, <<<<"immutable", op>>>>)
                  ELSE \E other \in layer_list_databases("mutable", mutable_catalog, tenant) :
                          IF other.status = "err"
                          THEN Return(req, other, <<<<"immutable", op>>, <<"mutable", op>>>>)
                          ELSE Return(req, CatOk(dbs.value \cup other.value),
                                      <<<<"immutable", op>>, <<"mutable", op>>>>)
       /\ UNCHANGED <<immutable_catalog, mutable_catalog, opVars>>

\* Catalog::rename_table of the bottom layer
mutable_rename_table(c, tenant, db_name, table_name, new_db_name, new_table_name) ==
    IF <<tenant, db_name>> \notin c.dbs THEN {Written(CatErr(UNKNOWN_DATABASE), c)}
    ELSE IF <<tenant, db_name, table_name>> \notin c.tables
    THEN {Written(CatErr(UNKNOWN_TABLE), c)}
    ELSE IF <<tenant, new_db_name>> \notin c.dbs THEN {Written(CatErr(UNKNOWN_DATABASE), c)}
    ELSE IF <<tenant, new_db_name, new_table_name>> \in c.tables
    THEN {Written(CatErr("TableAlreadyExists"), c)}
    ELSE {Written(CatOk({}),
                  [c EXCEPT !.tables = (@ \ {<<tenant, db_name, table_name>>})
                                           \cup {<<tenant, new_db_name, new_table_name>>}])}

\* lines 461-474 as a mutation point: the bottom layer renames whatever the
\* upper layer holds
RenameRefusedNever(e) == FALSE

\* lines 461-470: exists_database(..).await? of the upper layer is true
RenameRefused(e) == e.status = "ok" /\ e.value # {}

\* lines 454-478: refused if the upper layer has the database of the table
\* or the database of the new name, the second asked only if the first is
\* not there
rename_table(tenant, db_name, table_name, new_db_name, new_table_name) ==
    LET req == <<"rename_table", tenant, db_name, table_name, new_db_name, new_table_name>>
    IN /\ IF tenant_is_empty(tenant)
          THEN Return(req, CatErr("TenantIsEmpty"), <<>>) /\ mutable_catalog' = mutable_catalog
          ELSE \E e \in exists_database("immutable", immutable_catalog, tenant, db_name) :
                  IF e.status = "err"
                  THEN Return(req, e, <<ExistsCall>>) /\ mutable_catalog' = mutable_catalog
                  ELSE IF RenameRefused(e)
                  THEN /\ Return(req, CatErr("Unimplemented"), <<ExistsCall>>)
                       /\ mutable_catalog' = mutable_catalog
                  ELSE \E e2 \in exists_database("immutable", immutable_catalog,
                                                 tenant, new_db_name) :
                          IF e2.status = "err"
                          THEN /\ Return(req, e2, <<ExistsCall, ExistsCall>>)
                               /\ mutable_catalog' = mutable_catalog
                          ELSE IF RenameRefused(e2)
                          THEN /\ Return(req, CatErr("Unimplemented"), <<ExistsCall, ExistsCall>>)
                               /\ mutable_catalog' = mutable_catalog
                          ELSE \E w \in mutable_rename_table(mutable_catalog, tenant, db_name,
                                                             table_name, new_db_name,
                                                             new_table_name) :
                                  /\ Return(req, w.reply,
                                            <<ExistsCall, ExistsCall, <<"mutable", "rename_table">>>>)
                                  /\ mutable_catalog' = w.catalog
       /\ UNCHANGED <<immutable_catalog, opVars>>

\* Catalog::count_tables of the bottom layer: the number of the tenant's
\* tables
mutable_count_tables(c, tenant) ==
    {CatOk({<<"count", Cardinality({x \in c.tables : x[1] = tenant})>>}),
     CatErr("Internal")}

\* lines 480-491: the bottom layer only
count_tables(tenant) ==
    LET req == <<"count_tables", tenant, "", "">>
    IN /\ IF tenant_is_empty(tenant) THEN Return(req, CatErr("TenantIsEmpty"), <<>>)
          ELSE \E res \in mutable_count_tables(mutable_catalog, tenant) :
                  Return(req, res, <<<<"mutable", "count_tables">>>>)
       /\ UNCHANGED <<immutable_catalog, mutable_catalog, opVars>>

\* the system databases of the upper layer, with their tables, for one
\* tenant; the bottom layer starts empty
UpperLayers ==
    {[EmptyLayer EXCEPT !.dbs = {<<"t1", d>> : d \in ds},
                        !.tables = {<<"t1", d, "tb">> : d \in ts}] :
        ds \in SUBSET DbNames, ts \in SUBSET DbNames}

\* DatabaseCatalog::create (lines 120-130), the operator idle
InitCatalog ==
    /\ InitOperator
    /\ sched = "single"
    /\ scenario = "catalog"
    /\ immutable_catalog \in {c \in UpperLayers : \A t \in c.tables : <<t[1], t[2]>> \in c.dbs}
    /\ mutable_catalog = EmptyLayer
    /\ request = NoRequest
    /\ calls = <<>>
    /\ reply = NoReply

NextCatalog ==
    \/ \E tenant \in Tenants, db_name \in DbNames : get_database(tenant, db_name)
    \/ \E tenant \in Tenants, db_name \in DbNames : create_database(tenant, db_name)
    \/ \E tenant \in Tenants, db_name \in DbNames : drop_database(tenant, db_name)
    \/ \E tenant \in Tenants, db_name \in DbNames, new_db_name \in DbNames :
          rename_database(tenant, db_name, new_db_name)
    \/ \E tenant \in Tenants, db_name \in DbNames, table_name \in TableNames :
          get_table(tenant, db_name, table_name)
    \/ \E tenant \in Tenants, db_name \in DbNames : list_tables(tenant, db_name)
    \/ \E tenant \in Tenants, db_name \in DbNames : list_tables_history(tenant, db_name)
    \/ \E tenant \in Tenants, db_name \in DbNames, table_name \in TableNames :
          create_table(tenant, db_name, table_name)
    \/ \E id \in {"t1"} \X DbNames \X TableNames : drop_table_by_id(id)
    \/ \E tenant \in Tenants, db_name \in DbNames, table_name \in TableNames :
          undrop_table(tenant, db_name, table_name)
    \/ \E tenant \in Tenants, db_name \in DbNames : undrop_database(tenant, db_name)
    \/ \E tenant \in Tenants : list_databases(tenant)
    \/ \E tenant \in Tenants, db_name \in DbNames, table_name \in TableNames,
          new_db_name \in DbNames, new_table_name \in TableNames :
          rename_table(tenant, db_name, table_name, new_db_name, new_table_name)
    \/ \E tenant \in Tenants : count_tables(tenant)

SpecCatalog == InitCatalog /\ [][NextCatalog]_vars

(* ----------------------- the binder of account statements ------------- *)
\* Option: None and Some(x)
None == <<>>

Some(x) == <<x>>

\* the session of the binder: ctx.get_current_catalog(), ctx.get_tenant(),
\* ctx.get_current_database()
catalog_name == "default"

current_tenant == "t1"

current_database == "db1"

\* PrincipalIdentity::User and PrincipalIdentity::Role
Principals == {[kind |-> "User", name |-> "u1"], [kind |-> "Role", name |-> "r1"]}

\* AccountMgrLevel: Global, Table(database_name, table_name),
\* Database(database_name), UDF(udf), Stage(stage); the database name is
\* an Option
AccountMgrLevel(kind, database_name, table_name, name) ==
    [kind |-> kind, database_name |-> database_name, table_name |-> table_name, name |-> name]

Levels ==
    {AccountMgrLevel("Global", None, "", "")}
        \cup {AccountMgrLevel("Table", d, t, "") : d \in {None, Some("system")}, t \in TableNames}
        \cup {AccountMgrLevel("Database", d, "", "") : d \in {None, Some("system")}}
        \cup {AccountMgrLevel("UDF", None, "", "f")}
        \cup {AccountMgrLevel("Stage", None, "", "s")}

\* the privilege lists of a statement
PrivilegeLists == {<<"Select", "Insert">>, <<"Ownership", "Select">>}

\* AccountMgrSource: Role { role }, ALL { level }, Privs { privileges, level }
Sources ==
    {[kind |-> "Role", role |-> "r2", privileges |-> <<>>,
      level |-> AccountMgrLevel("Global", None, "", "")]}
        \cup {[kind |-> "ALL", role |-> "", privileges |-> <<>>, level |-> l] : l \in Levels}
        \cup {[kind |-> "Privs", role |-> "", privileges |-> ps, level |-> l] :
                 ps \in PrivilegeLists, l \in Levels}

\* GrantStmt and RevokeStmt
Stmts == [source : Sources, principal : Principals]

\* GrantObject: Global, Database(catalog, db), DatabaseById(catalog, db_id),
\* Table(catalog, db, table), TableById(catalog, db_id, table_id), UDF(name),
\* Stage(name)
GrantObject(kind, catalog, db_id, table_id, database_name, table_name, name) ==
    [kind |-> kind, catalog |-> catalog, db_id |-> db_id, table_id |-> table_id,
     database_name |-> database_name, table_name |-> table_name, name |-> name]

Global == GrantObject("Global", "", 0, 0, "", "", "")

DatabaseById(catalog, db_id) == GrantObject("DatabaseById", catalog, db_id, 0, "", "", "")

Database(catalog, database_name) == GrantObject("Database", catalog, 0, 0, database_name, "", "")

TableById(catalog, db_id, table_id) ==
    GrantObject("TableById", catalog, db_id, table_id, "", "", "")

Table(catalog, database_name, table_name) ==
    GrantObject("Table", catalog, 0, 0, database_name, table_name, "")

UDF(udf) == GrantObject("UDF", "", 0, 0, "", "", udf)

Stage(stage) == GrantObject("Stage", "", 0, 0, "", "", stage)

\* the privileges a kind of object can carry, ownership apart
PrivilegesOn(kind) ==
    IF kind = "Global" THEN {"Usage", "Select", "Insert", "Drop", "Read"}
    ELSE IF kind \in {"Database", "DatabaseById"} THEN {"Select", "Insert", "Drop"}
    ELSE IF kind \in {"Table", "TableById"} THEN {"Select", "Insert"}
    ELSE IF kind = "UDF" THEN {"Usage"}
    ELSE {"Read"}

\* GrantObject::available_privileges(available_ownership)
available_privileges(object, available_ownership) ==
    PrivilegesOn(object.kind) \cup (IF available_ownership THEN {"Ownership"} ELSE {})

\* UserPrivilegeSet::empty() and set_privilege for every privilege of the
\* statement (lines 68-71, 116-119)
RECURSIVE set_privileges(_, _)
set_privileges(priv_types, privileges) ==
    IF privileges = <<>> THEN priv_types
    ELSE set_privileges(priv_types \cup {Head(privileges)}, Tail(privileges))

\* the identifiers the catalog has given its databases and tables
db_id_of(database_name) == IF database_name = "system" THEN 1 ELSE 2

table_id_of(database_name, table_name) == 10 * db_id_of(database_name) + 1

\* a read of the default catalog, a DatabaseCatalog: the upper layer's
\* answer, the bottom layer's if the upper layer does not know the database
CatalogRead(upper, bottom) ==
    {r \in upper : ~IsUnknownDatabase(r)}
        \cup (IF \E r \in upper : IsUnknownDatabase(r) THEN bottom ELSE {})

\* an identifier looked up in the catalog, or the error of the lookup
Looked(r, id) ==
    IF r.status = "ok" THEN [status |-> "ok", code |-> "", id |-> id]
    ELSE [status |-> "err", code |-> r.code, id |-> 0]

\* lines 145-150, 160-165, 188-193, 207-212:
\* catalog.get_database(&tenant, &database_name).await?.get_db_info().ident.db_id
get_db_id(database_name) ==
    {Looked(r, db_id_of(database_name)) :
        r \in CatalogRead(layer_get_database("immutable", immutable_catalog,
                                             current_tenant, database_name),
                          layer_get_database("mutable", mutable_catalog,
                                             current_tenant, database_name))}

\* lines 151-154, 194-197:
\* catalog.get_table(&tenant, &database_name, table_name).await?.get_id()
get_table_id(database_name, table_name) ==
    {Looked(r, table_id_of(database_name, table_name)) :
        r \in CatalogRead(layer_get_table("immutable", immutable_catalog, current_tenant,
                                          database_name, table_name),
                          layer_get_table("mutable", mutable_catalog, current_tenant,
                                          database_name, table_name))}

\* the calls a conversion makes on the catalog
GetDatabaseCall == <<"catalog", "get_database">>

GetTableCall == <<"catalog", "get_table">>

\* the result of a conversion: the grant objects and the calls made, or the
\* error of a call
Converted(objects, cs) == [status |-> "ok", code |-> "", objects |-> objects, calls |-> cs]

ConvertErr(code, cs) == [status |-> "err", code |-> code, objects |-> <<>>, calls |-> cs]

\* lines 137, 180: self.ctx.get_catalog(&catalog_name).await? fails
NoCatalogOfName == {ConvertErr("UnknownCatalog", <<>>)}

\* lines 142-144, 157-159, 185-187, 204-206: the database of the statement,
\* the current database if it names none
database_name_of(source) ==
    IF source.database_name = None THEN current_database ELSE source.database_name[1]

\* the identifiers a conversion has looked up and the calls it made, or the
\* error of the first lookup that failed
Ids(db_id, table_id, cs) ==
    [status |-> "ok", code |-> "", db_id |-> db_id, table_id |-> table_id, calls |-> cs]

IdsErr(code, cs) == [status |-> "err", code |-> code, db_id |-> 0, table_id |-> 0, calls |-> cs]

\* lines 145-154, 188-197: the database looked up, then the table
LookedTable(database_name, table_name) ==
    UNION {IF d.status = "err" THEN {IdsErr(d.code, <<GetDatabaseCall>>)}
           ELSE {IF t.status = "err" THEN IdsErr(t.code, <<GetDatabaseCall, GetTableCall>>)
                 ELSE Ids(d.id, t.id, <<GetDatabaseCall, GetTableCall>>) :
                    t \in get_table_id(database_name, table_name)} :
              d \in get_db_id(database_name)}

\* lines 160-165, 207-212: the database looked up
LookedDatabase(database_name) ==
    {IF d.status = "err" THEN IdsErr(d.code, <<GetDatabaseCall>>)
     ELSE Ids(d.id, 0, <<GetDatabaseCall>>) : d \in get_db_id(database_name)}

\* the ? of the lookups: their error, or the objects made of the identifiers
Resolved(ids, objects) ==
    IF ids.status = "err" THEN ConvertErr(ids.code, ids.calls)
    ELSE Converted(objects, ids.calls)

\* lines 131-172
convert_to_grant_object(source) ==
    NoCatalogOfName \cup
    (IF source.kind = "Global" THEN {Converted(<<Global>>, <<>>)}
     ELSE IF source.kind = "Table"
     THEN {Resolved(ids, <<TableById(catalog_name, ids.db_id, ids.table_id)>>) :
              ids \in LookedTable(database_name_of(source), source.table_name)}
     ELSE IF source.kind = "Database"
     THEN {Resolved(ids, <<DatabaseById(catalog_name, ids.db_id)>>) :
              ids \in LookedDatabase(database_name_of(source))}
     ELSE IF source.kind = "UDF" THEN {Converted(<<UDF(source.name)>>, <<>>)}
     ELSE {Converted(<<Stage(source.name)>>, <<>>)})

\* lines 174-223: the object by identifier, then the object by name of the
\* old versions
convert_to_revoke_grant_object(source) ==
    NoCatalogOfName \cup
    (IF source.kind = "Global" THEN {Converted(<<Global>>, <<>>)}
     ELSE IF source.kind = "Table"
     THEN {Resolved(ids, <<TableById(catalog_name, ids.db_id, ids.table_id),
                           Table(catalog_name, database_name_of(source), source.table_name)>>) :
              ids \in LookedTable(database_name_of(source), source.table_name)}
     ELSE IF source.kind = "Database"
     THEN {Resolved(ids, <<DatabaseById(catalog_name, ids.db_id),
                           Database(catalog_name, database_name_of(source))>>) :
              ids \in LookedDatabase(database_name_of(source))}
     ELSE IF source.kind = "UDF" THEN {Converted(<<UDF(source.name)>>, <<>>)}
     ELSE {Converted(<<Stage(source.name)>>, <<>>)})

\* Result<Plan>: a plan or an error
BindOk(plan) == [status |-> "ok", code |-> "", plan |-> Some(plan)]

BindErr(code) == [status |-> "err", code |-> code, plan |-> None]

\* GrantRolePlan and RevokeRolePlan
RolePlan(kind, principal, role) ==
    [kind |-> kind, principal |-> principal, role |-> role, on |-> <<>>, priv_types |-> {}]

\* GrantPrivilegePlan, its on one object, and RevokePrivilegePlan, its on a
\* vector of objects
PrivilegePlan(kind, principal, on, priv_types) ==
    [kind |-> kind, principal |-> principal, role |-> "", on |-> on, priv_types |-> priv_types]

\* lines 41-81
bind_grant(stmt) ==
    LET req == <<"bind_grant", stmt>>
        source == stmt.source
        principal == stmt.principal
    IN /\ IF source.kind = "Role"
          THEN Return(req, BindOk(RolePlan("GrantRole", principal, source.role)), <<>>)
          ELSE \E g \in convert_to_grant_object(source.level) :
                  IF g.status = "err" THEN Return(req, BindErr(g.code), g.calls)
                  ELSE LET grant_object == g.objects[1]
                           priv_types ==
                               IF source.kind = "ALL"
                               THEN available_privileges(grant_object, FALSE)
                               ELSE set_privileges({}, source.privileges)
                       IN Return(req,
                                 BindOk(PrivilegePlan("GrantPriv", principal, grant_object,
                                                      priv_types)),
                                 g.calls)
       /\ UNCHANGED <<immutable_catalog, mutable_catalog, opVars>>

\* lines 103-106 as a mutation point: ownership is revoked from nobody
with_ownershipNever(principal) == FALSE

\* lines 103-106: REVOKE ALL takes the ownership too from a user, who may
\* hold it from an old GRANT ALL, and not from a role
with_ownership(principal) == principal.kind = "User"

\* lines 84-129
bind_revoke(stmt) ==
    LET req == <<"bind_revoke", stmt>>
        source == stmt.source
        principal == stmt.principal
    IN /\ IF source.kind = "Role"
          THEN Return(req, BindOk(RolePlan("RevokeRole", principal, source.role)), <<>>)
          ELSE \E g \in convert_to_revoke_grant_object(source.level) :
                  IF g.status = "err" THEN Return(req, BindErr(g.code), g.calls)
                  ELSE LET grant_object == g.objects
                           priv_types ==
                               IF source.kind = "ALL"
                               THEN available_privileges(grant_object[1],
                                                         with_ownership(principal))
                               ELSE set_privileges({}, source.privileges)
                       IN Return(req,
                                 BindOk(PrivilegePlan("RevokePriv", principal, grant_object,
                                                      priv_types)),
                                 g.calls)
       /\ UNCHANGED <<immutable_catalog, mutable_catalog, opVars>>

\* AuthInfo: None and Password { hash_value }
AuthInfo(auth_type, hash_value) == [auth_type |-> auth_type, hash_value |-> hash_value]

\* the hash of a password
hash_of(password) == IF password = "p1" THEN "h1" ELSE "h2"

\* the auth infos of the users
AuthInfos == {AuthInfo("NoPassword", ""), AuthInfo("Sha256Password", hash_of("p1"))}

\* AuthInfo::alter2(auth_type, password): the type of the statement, the
\* current one if it names none; a password type needs a password
alter2(auth_info, auth_type, password) ==
    LET new_auth_type == IF auth_type = None THEN auth_info.auth_type ELSE auth_type[1]
    IN IF new_auth_type = "NoPassword"
       THEN [status |-> "ok", code |-> "", auth_info |-> AuthInfo("NoPassword", "")]
       ELSE IF password = None
       THEN [status |-> "err", code |-> "BadArguments", auth_info |-> auth_info]
       ELSE [status |-> "ok", code |-> "",
             auth_info |-> AuthInfo(new_auth_type, hash_of(password[1]))]

\* UserOption, and the items of a statement that set it
UserOption(tenant_setting, default_role) ==
    [tenant_setting |-> tenant_setting, default_role |-> default_role]

\* the options of the users
UserOptions == {UserOption(FALSE, None), UserOption(TRUE, Some("r1"))}

TenantSetting(enabled) == [kind |-> "TenantSetting", enabled |-> enabled, role |-> ""]

DefaultRole(role) == [kind |-> "DefaultRole", enabled |-> FALSE, role |-> role]

\* UserOptionItem::apply
apply(option, user_option) ==
    IF option.kind = "TenantSetting"
    THEN [user_option EXCEPT !.tenant_setting = option.enabled]
    ELSE [user_option EXCEPT !.default_role = Some(option.role)]

\* lines 279-282: every option of the statement applied in turn
RECURSIVE apply_all(_, _)
apply_all(user_options, user_option) ==
    IF user_options = <<>> THEN user_option
    ELSE apply_all(Tail(user_options), apply(Head(user_options), user_option))

\* UserInfo: the users the session and the user API can answer with
UserInfos == [name : {"u1"}, auth_info : AuthInfos, option : UserOptions]

\* AuthOption { auth_type, password }
AuthOption(auth_type, password) == [auth_type |-> auth_type, password |-> password]

AuthOptions == {AuthOption(None, None), AuthOption(None, Some("p1")),
                AuthOption(Some("Sha256Password"), Some("p2")),
                AuthOption(Some("Sha256Password"), None),
                AuthOption(Some("NoPassword"), None)}

\* AlterUserStmt { user, auth_option, user_options }
AlterUserStmts ==
    [user : {None, Some("u1")},
     auth_option : {None} \cup {Some(a) : a \in AuthOptions},
     user_options : {<<>>, <<TenantSetting(TRUE)>>,
                     <<TenantSetting(TRUE), DefaultRole("r1")>>}]

\* AlterUserPlan { user, auth_info, user_option }
AlterUserPlan(user, auth_info, user_option) ==
    [kind |-> "AlterUser", user |-> user, auth_info |-> auth_info,
     user_option |-> user_option]

\* UserApiProvider::verify_password: the password passes the policy or not
verify_password == {"ok", "InvalidPassword"}

\* lines 270-277: the user of the statement, the current user if it names
\* none, or the error of the lookup
get_user_info(user) ==
    IF user = None
    THEN [call : {<<"ctx", "get_current_user">>},
          answer : {None} \cup {Some(u) : u \in UserInfos}]
    ELSE [call : {<<"users", "get_user">>},
          answer : {None} \cup {Some(u) : u \in {x \in UserInfos : x.name = user[1]}}]

\* line 297 as a mutation point: the altered auth info is always put in the
\* plan
new_auth_infoAlways(user_info, auth_info) == Some(auth_info)

\* lines 297-301: None means no change to make
new_auth_info(user_info, auth_info) ==
    IF user_info.auth_info = auth_info THEN None ELSE Some(auth_info)

\* lines 306-310
new_user_option(user_info, user_option) ==
    IF user_option = user_info.option THEN None ELSE Some(user_option)

VerifyCall == <<"users", "verify_password">>

\* lines 260-320
bind_alter_user(stmt) ==
    /\ \E got \in get_user_info(stmt.user) :
          LET req == <<"bind_alter_user", stmt, got.answer>>
          IN IF got.answer = None THEN Return(req, BindErr("UnknownUser"), <<got.call>>)
             ELSE LET user_info == got.answer[1]
                      user_option == apply_all(stmt.user_options, user_info.option)
                  IN IF stmt.auth_option = None
                     THEN Return(req,
                                 BindOk(AlterUserPlan(user_info.name, None,
                                                      new_user_option(user_info, user_option))),
                                 <<got.call>>)
                     ELSE LET auth_option == stmt.auth_option[1]
                              altered == alter2(user_info.auth_info, auth_option.auth_type,
                                                auth_option.password)
                          IN IF altered.status = "err"
                             THEN Return(req, BindErr(altered.code), <<got.call>>)
                             ELSE \E v \in verify_password :
                                     IF v # "ok"
                                     THEN Return(req, BindErr(v), <<got.call, VerifyCall>>)
                                     ELSE Return(req,
                                                 BindOk(AlterUserPlan(
                                                     user_info.name,
                                                     new_auth_info(user_info, altered.auth_info),
                                                     new_user_option(user_info, user_option))),
                                                 <<got.call, VerifyCall>>)
    /\ UNCHANGED <<immutable_catalog, mutable_catalog, opVars>>

\* the catalog the binder's session sees: the upper layer with or without
\* the system database and its table, the bottom layer empty or with the
\* current database and its table
BottomLayers ==
    {EmptyLayer,
     [EmptyLayer EXCEPT !.dbs = {<<current_tenant, current_database>>},
                        !.tables = {<<current_tenant, current_database, "tb">>}]}

InitBinder ==
    /\ InitOperator
    /\ sched = "single"
    /\ scenario = "binder"
    /\ immutable_catalog \in {c \in UpperLayers :
                                 /\ \A t \in c.tables : <<t[1], t[2]>> \in c.dbs
                                 /\ <<current_tenant, current_database>> \notin c.dbs}
    /\ mutable_catalog \in BottomLayers
    /\ request = NoRequest
    /\ calls = <<>>
    /\ reply = NoReply

NextBinder ==
    \/ \E stmt \in Stmts : bind_grant(stmt)
    \/ \E stmt \in Stmts : bind_revoke(stmt)
    \/ \E stmt \in AlterUserStmts : bind_alter_user(stmt)

SpecBinder == InitBinder /\ [][NextBinder]_vars

(* ------------------------------ properties ---------------------------- *)
RECURSIVE SumOver(_, _)
SumOver(f, S) ==
    IF S = {} THEN 0 ELSE LET x == CHOOSE y \in S : TRUE IN f[x] + SumOver(f, S \ {x})

\* the number of rows of the blocks pulled so far
TotalFed == SumOver(fed, DOMAIN fed)

\* the finalized result of slot i of an entry, and of row r of an output block
Finalized(entry, i) == accumulate_result(entry.funcs[i].func)[1]

OutValue(b, i, r) == b.columns[i][r].of[1]

OutRows(b) == 1..Len(b.columns[Len(b.columns)])

OutKey(b, r) == b.columns[Len(b.columns)][r]

\* a call is between two blocks, or past the last one, and has not failed
Between(p) == pc[p] \in {"AwaitNext", "CheckEmpty", "ReadLock", "Fields", "Drain", "Finished"}

Returned(p) == pc[p] = "Finished" /\ result[p].status = "ok"

\* C1: once the blocks pulled are processed, every row pulled is counted in
\* the entry of its key and in no other: the table has exactly the keys of
\* the rows pulled, the COUNT(*) of each entry is the number of rows pulled
\* with that key, and in the block returned the counts of all rows sum to
\* the number of rows pulled, each key in one row.
C1_EveryRowInOneGroup ==
    \A p \in Procs :
        /\ (Between(p) /\ pc[p] # "Finished") =>
              /\ DOMAIN groups = DOMAIN fed
              /\ \A k \in DOMAIN groups : Finalized(groups[k], 1) = fed[k]
        /\ (Returned(p) /\ TotalFed > 0) =>
              /\ Len(result[p].blocks) = 1
              /\ LET b == result[p].blocks[1]
                 IN /\ SumOver([r \in OutRows(b) |-> OutValue(b, 1, r)], OutRows(b)) = TotalFed
                    /\ {OutKey(b, r) : r \in OutRows(b)} = DOMAIN fed
                    /\ Cardinality(OutRows(b)) = Cardinality(DOMAIN fed)
                    /\ \A r \in OutRows(b) : OutValue(b, 1, r) = fed[OutKey(b, r)]

\* C1 witness: a call returned after rows of two keys, one of them carried
\* by three rows or more
C1_Witness ==
    /\ Returned(1)
    /\ Cardinality(DOMAIN fed) = 2
    /\ \E k \in DOMAIN fed : fed[k] >= 3

(* one block, processed alone by a new operator: every local group is new *)
RECURSIVE ConcatRows(_)
ConcatRows(items) == IF items = <<>> THEN <<>> ELSE Head(items).rows \o ConcatRows(Tail(items))

WholeBlock == [cols |-> input.items[1].cols, rows |-> ConcatRows(input.items)]

SingleBlockTable(b) ==
    LET gi == BlockGroups(b, group_exprs)
    IN [k \in DOMAIN gi |->
          LET tb == block_take_by_indices(b, gi[k].indices)
          IN [funcs |-> [i \in 1..Len(aggr_exprs) |-> NewSlot(aggr_exprs[i], tb, num_rows(tb))],
              values |-> gi[k].values]]

\* the finalized results of a table: for every key, the result of every slot
Results(t) == [k \in DOMAIN t |-> [i \in 1..Len(t[k].funcs) |-> Finalized(t[k], i)]]

\* the rows of the blocks a call returned: key, key values, results
Output(res) ==
    IF res.blocks = <<>> THEN {}
    ELSE LET b == res.blocks[1]
         IN {<<OutKey(b, r), b.columns[Len(b.columns) - 1][r],
               [i \in 1..(Len(b.columns) - 2) |-> OutValue(b, i, r)]>> : r \in OutRows(b)}

ExpectedOutput(t) ==
    {<<k, to_string(t[k].values), [i \in 1..Len(t[k].funcs) |-> Finalized(t[k], i)]>> :
        k \in DOMAIN t}

\* C2: a call that returned from the stream [B1, B2] of the two parts of a
\* block B has the keys, and for every key the finalized results, of a run
\* on the stream [B]: its table finalizes to the same results, and it
\* returns the same rows.
C2_BatchSizeInvariance ==
    (Returned(1) /\ input.kind = "script" /\ Len(input.items) = 2) =>
        LET t == SingleBlockTable(WholeBlock)
        IN /\ DOMAIN groups = DOMAIN t
           /\ Results(groups) = Results(t)
           /\ Output(result[1]) = ExpectedOutput(t)

\* C2 witness: both parts have rows, a key of the first part comes again in
\* the second, and the second has a key of its own
C2_Witness ==
    /\ Returned(1)
    /\ input.kind = "script"
    /\ Len(input.items) = 2
    /\ LET k1 == DOMAIN BlockGroups(input.items[1], group_exprs)
           k2 == DOMAIN BlockGroups(input.items[2], group_exprs)
       IN k1 \cap k2 # {} /\ k2 \ k1 # {}

\* the key of the local group that holds row i of the block of call p
KeysOfRow(p, i) ==
    {k \in DOMAIN group_indices[p] : i \in Range(group_indices[p][k].indices)}

\* C3: once the rows of a block are grouped, every row is under one key,
\* and two rows are under the same key exactly if their tuples of group-by
\* values are equal, null-ness included: rows that differ in a value, in a
\* null or in the length of a string are under different keys, rows with
\* equal tuples under byte-identical ones.
C3_KeyInjective ==
    \A p \in Procs :
        (pc[p] = "ForGroups" /\ scenario = "key") =>
            \A i, j \in 0..(num_rows(block[p]) - 1) :
                /\ Cardinality(KeysOfRow(p, i)) = 1
                /\ (KeysOfRow(p, i) = KeysOfRow(p, j))
                      <=> (RowValues(block[p], group_exprs, i) = RowValues(block[p], group_exprs, j))

\* C3 witness: a null K whose slot holds the bytes of 0 beside a K of 0,
\* the other columns equal, in two groups; and two rows that differ only in
\* which of two strings is the empty one
C3_Witness ==
    /\ pc[1] = "ForGroups"
    /\ scenario = "key"
    /\ Cardinality(DOMAIN group_indices[1]) = 2
    /\ LET r1 == block[1].rows[1]
           r2 == block[1].rows[2]
       IN \/ /\ group_exprs = <<"K", "S1", "S2">>
             /\ r1["K"] = Cell(TRUE, 0) /\ r2["K"] = Cell(FALSE, 0)
             /\ r1["S1"] = r2["S1"] /\ r1["S2"] = r2["S2"]
          \/ /\ group_exprs = <<"S1", "S2">>
             /\ r1["S1"] = Cell(FALSE, <<1>>) /\ r1["S2"] = Cell(FALSE, <<>>)
             /\ r2["S1"] = Cell(FALSE, <<>>) /\ r2["S2"] = Cell(FALSE, <<1>>)

\* the names of the fields of a schema
FieldNames(sch) == [i \in 1..Len(sch) |-> sch[i].name]

\* C4: a call that pulled no row (no block, or blocks of zero rows only)
\* and returned has returned Ok with zero blocks and an empty schema, and if
\* it failed it was not in the upsert or the drain; a block of zero rows
\* has no local group, so the steps on it leave the table as it is and lead
\* to the next pull.
C4_EmptyInvariant ==
    \A p \in Procs :
        /\ (pc[p] = "Finished" /\ TotalFed = 0) => result[p] = Ok(<<>>, <<>>)
        /\ (pc[p] = "Failed" /\ TotalFed = 0) =>
              result[p].cause \in {"input", "upstream", "group_column", "group_key"}
        /\ (pc[p] = "ForGroups" /\ num_rows(block[p]) = 0) =>
              /\ DOMAIN group_indices[p] = {}
              /\ ENABLED BatchDone(p)

C4_EmptyStep ==
    \A p \in Procs :
        (pc[p] \in {"EvalGroup", "ForGroups"} /\ num_rows(block[p]) = 0) =>
            /\ groups' = groups
            /\ pc[p] = "ForGroups" => pc'[p] \in {"ForGroups", "AwaitNext"}
            /\ pc[p] = "EvalGroup" => pc'[p] \in {"EvalGroup", "ForGroups", "Failed"}

C5_OutputLayout ==
    \A p \in Procs :
        (Returned(p) /\ result[p].blocks # <<>>) =>
            LET b == result[p].blocks[1]
            IN /\ Len(result[p].blocks) = 1
               /\ Len(b.columns) = Len(aggr_exprs) + 2
               /\ Len(b.schema) = Len(b.columns)
               /\ FieldNames(b.schema) =
                     [i \in 1..Len(aggr_exprs) |-> aggr_exprs[i].name]
                        \o <<"_group_keys", "_group_by_key">>
               /\ \A i \in 1..Len(b.columns) : Len(b.columns[i]) = Cardinality(DOMAIN groups)

\* C6: every key of the table was inserted exactly once and no key that was
\* inserted is missing from it; the keys of the table are keys of rows
\* pulled, and between two blocks (and after the last) they are exactly the
\* distinct keys of all rows pulled so far.
C6_InsertedOnce ==
    /\ DOMAIN groups = DOMAIN inserts
    /\ \A k \in DOMAIN groups : inserts[k] = 1
    /\ DOMAIN groups \subseteq DOMAIN fed
    /\ \A p \in Procs : Between(p) => DOMAIN groups = DOMAIN fed

\* C6 witness: a second block with a key of the first and a new key has
\* been processed
C6_Witness ==
    /\ pc[1] = "AwaitNext"
    /\ stream[1].n = 2
    /\ Cardinality(DOMAIN groups) = 2
    /\ \E k \in DOMAIN groups : Finalized(groups[k], 1) >= 2 /\ fed[k] < TotalFed - 1

\* an entry whose slots, one per aggregate expression, have all absorbed at
\* least the rows of one take block
Absorbed(entry) ==
    /\ Len(entry.funcs) = Len(aggr_exprs)
    /\ \A i \in 1..Len(entry.funcs) : entry.funcs[i].func.state >= 1

C7_Invariant ==
    /\ \A k \in DOMAIN groups : Absorbed(groups[k])
    /\ \A p \in Procs :
          pc[p] = "Miss" =>
              /\ lock = [writer |-> p, readers |-> {}]
              /\ group_key[p] \notin DOMAIN groups

C7_Step ==
    \A p \in Procs :
        /\ (pc[p] = "Miss" /\ pc'[p] = "Failed") =>
              /\ groups' = groups
              /\ group_key[p] \notin DOMAIN groups'
        /\ (pc[p] = "Miss" /\ group_key[p] \in DOMAIN groups') =>
              /\ lock.writer = p
              /\ Len(aggr_funcs[p]) = Len(aggr_exprs)
              /\ groups'[group_key[p]].funcs = aggr_funcs[p]

\* C7: every entry any call can find in the table has one slot per
\* aggregate expression, each having absorbed a take block; a call that
\* builds a new entry holds the write lock alone from the lookup on, the key
\* is not in the table while it does, the entry enters the table only with
\* all its slots accumulated, and if the call fails while building it the
\* table is left as it was, without the key.
C7_NoPartialEntry == [](C7_Invariant) /\ [][C7_Step]_vars

\* C7 witness: call 1 has accumulated the first slot of a new entry under
\* the write lock while call 2 waits for the lock with the same key
C7_Witness ==
    /\ pc[1] = "Miss"
    /\ Len(aggr_funcs[1]) = 1
    /\ pc[2] = "Lock"
    /\ group_key[2] = group_key[1]

\* a step in which something fails: the stream or a block is Err, or a
\* step of the grouping, the upsert or the drain is
FailStep(p) ==
    \/ InputErr(p)
    \/ PullErr(p)
    \/ GroupRowsErr(p)
    \/ TakeBlockErr(p)
    \/ AccumulateNewErr(p)
    \/ AccumulateHitErr(p)
    \/ DrainErr(p)

\* a state in which the next step of the call cannot succeed: a column it
\* looks up is not in the block
MustFail(p) ==
    \/ pc[p] = "EvalGroup" /\ ~has_group_columns(block[p])
    \/ /\ pc[p] = "Miss"
       /\ Len(aggr_funcs[p]) < Len(aggr_exprs)
       /\ ~args_present(take_block[p], aggr_exprs[Len(aggr_funcs[p]) + 1].args)
    \/ /\ pc[p] = "Hit"
       /\ idx[p] <= Len(groups[group_key[p]].funcs)
       /\ ~args_present(take_block[p], groups[group_key[p]].funcs[idx[p]].args)

C8_Invariant ==
    \A p \in Procs :
        /\ pc[p] = "Failed" <=> result[p].status = "err"
        /\ result[p].status = "err" => result[p].blocks = <<>>
        /\ result[p].blocks # <<>> =>
              /\ Returned(p)
              /\ Len(result[p].blocks) = 1
              /\ Cardinality(OutRows(result[p].blocks[1])) = Cardinality(DOMAIN groups)
        /\ pc[p] = "Failed" => ~ENABLED PullBlock(p)

C8_Step ==
    \A p \in Procs :
        /\ FailStep(p) => pc'[p] = "Failed" /\ result'[p].status = "err"
        /\ (MustFail(p) /\ <<pc[p], aggr_funcs[p], idx[p]>>' # <<pc[p], aggr_funcs[p], idx[p]>>) =>
              pc'[p] = "Failed" /\ result'[p].status = "err"
        /\ pc[p] = "Failed" =>
              /\ pc'[p] = "Failed"
              /\ result'[p] = result[p]
              /\ stream'[p] = stream[p]

\* C8: a step that fails ends the call at once with Err, and a step that
\* looks up a missing column fails; a call that failed has returned no
\* block, stays failed and pulls nothing more; a block is returned only by
\* a call that finished, and then it is one block with a row for every
\* entry of the table.
C8_ErrorAborts == [](C8_Invariant) /\ [][C8_Step]_vars

\* C8 witness: the call failed on its second block, with entries of the
\* first in the table, and has returned no block
C8_Witness ==
    /\ pc[1] = "Failed"
    /\ stream[1].n = 2
    /\ DOMAIN groups # {}
    /\ result[1].blocks = <<>>
    /\ result[1].cause = "arg_column"

\* C9 (as claimed): the table is empty when a call starts to pull its
\* stream, also when it is a further call after one that finished, and over
\* all calls on the instance at most one block is returned.
C9_NotReusable ==
    /\ \A p \in Procs :
          (/\ pc[p] = "AwaitNext"
           /\ stream[p].n = 0
           /\ \A q \in Procs \ {p} : pc[q] \in {"Idle", "Finished"}) => DOMAIN groups = {}
    /\ SumOver([p \in Procs |-> Len(result[p].blocks)], Procs) <= 1

\* the calls that are suspended or not running
Suspended(p) == pc[p] \in {"Idle", "AwaitInput", "AwaitNext", "Finished", "Failed"}

\* C10: a call that awaits its input or the next block holds no lock; the
\* write lock is held only by a call that is inside the upsert of one local
\* group of its current block, the read lock only by a call in the drain;
\* and a call that wants the lock while all others are suspended or have
\* returned can take it.
C10_NoLockAcrossAwait ==
    \A p \in Procs :
        /\ Suspended(p) => lock.writer # p /\ p \notin lock.readers
        /\ lock.writer = p =>
              /\ pc[p] \in {"Miss", "Hit"}
              /\ num_rows(block[p]) > 0
              /\ num_rows(take_block[p]) > 0
        /\ p \in lock.readers => pc[p] \in {"Fields", "Drain"}
        /\ (\A q \in Procs \ {p} : Suspended(q)) =>
              /\ pc[p] = "Lock" => ENABLED LockGroups(p)
              /\ pc[p] = "CheckEmpty" => ENABLED (ReturnEmpty(p) \/ NotEmpty(p))
              /\ pc[p] = "ReadLock" => ENABLED ReadLock(p)

\* C10 witness: call 1 awaits its next block after a block that made an
\* entry, and call 2 holds the write lock
C10_Witness ==
    /\ pc[1] = "AwaitNext"
    /\ stream[1].n = 1
    /\ DOMAIN groups # {}
    /\ lock.writer = 2

\* a call has decided that the table is not empty (line 220) and has not
\* yet returned its block
Draining(p) == pc[p] \in {"ReadLock", "Fields", "Drain"}

\* C11 (as claimed): from the decision that the table is not empty to the
\* last entry iterated no upsert of another call takes effect: the table
\* stays as it was when the decision was made.
C11_DrainExcludesWriters ==
    [][\A p \in Procs : Draining(p) => groups' = groups]_vars

\* the local groups and the sums of the example of lines 90-118
ScenarioAIndices == (<<0>> :> <<2>>) @@ (<<1>> :> <<0, 3>>) @@ (<<2>> :> <<1, 4>>)

ScenarioASums == (<<0>> :> 3) @@ (<<1>> :> 5) @@ (<<2>> :> 7)

\* C12: on the one block with A = [1,2,3,4,5], grouped by A % 3 with SUM(A),
\* the rows are grouped to key 0 -> [2], key 1 -> [0,3], key 2 -> [1,4], and
\* the call that returns from that stream returns one block of exactly 3
\* rows whose finalized sums are 0 -> 3, 1 -> 5, 2 -> 7.
C12_ScenarioA ==
    /\ (pc[1] = "ForGroups" /\ block[1] = ScenarioABlock /\ DOMAIN groups = {}) =>
          [k \in DOMAIN group_indices[1] |-> group_indices[1][k].indices] = ScenarioAIndices
    /\ (Returned(1) /\ stream[1].n = 1) =>
          /\ Len(result[1].blocks) = 1
          /\ LET b == result[1].blocks[1]
             IN /\ Cardinality(OutRows(b)) = 3
                /\ {OutKey(b, r) : r \in OutRows(b)} = DOMAIN ScenarioASums
                /\ \A r \in OutRows(b) : OutValue(b, 1, r) = ScenarioASums[OutKey(b, r)]

\* C12 witness: the call has returned its block for the example
C12_Witness ==
    /\ Returned(1)
    /\ input.items = <<ScenarioABlock>>
    /\ stream[1].n = 1
    /\ result[1].blocks # <<>>

\* the rows of block b whose key is k, in row order
RowsOfKey(b, k) ==
    LET gi == BlockGroups(b, group_exprs)
    IN IF k \in DOMAIN gi THEN block_take_by_indices(b, gi[k].indices).rows ELSE <<>>

\* the rows with key k of the two blocks of the stream, concatenated
KeyRowsAll(k) ==
    [cols |-> input.items[1].cols,
     rows |-> RowsOfKey(input.items[1], k) \o RowsOfKey(input.items[2], k)]

\* one accumulate of aggregate i over all rows with key k
SingleAccumulate(k, i) ==
    accumulate_result(NewSlot(aggr_exprs[i], KeyRowsAll(k), num_rows(KeyRowsAll(k))).func)[1]

\* the keys that occur in both blocks of the stream
KeysInBoth ==
    DOMAIN BlockGroups(input.items[1], group_exprs)
        \cap DOMAIN BlockGroups(input.items[2], group_exprs)

C13_Invariant ==
    (Returned(1) /\ input.kind = "script" /\ Len(input.items) = 2) =>
        \A k \in KeysInBoth :
            /\ k \in DOMAIN groups
            /\ inserts[k] = 1
            /\ Cardinality({r \in OutRows(result[1].blocks[1]) :
                               OutKey(result[1].blocks[1], r) = k}) = 1
            /\ \A i \in 1..Len(aggr_exprs) : Finalized(groups[k], i) = SingleAccumulate(k, i)
            /\ Finalized(groups[k], 1) = num_rows(KeyRowsAll(k))
            /\ \A r \in OutRows(result[1].blocks[1]) :
                  OutKey(result[1].blocks[1], r) = k =>
                      \A i \in 1..Len(aggr_exprs) :
                          OutValue(result[1].blocks[1], i, r) = SingleAccumulate(k, i)

C13_Step ==
    \A k \in DOMAIN groups :
        /\ k \in DOMAIN groups'
        /\ groups'[k].values = groups[k].values
        /\ Len(groups'[k].funcs) = Len(groups[k].funcs)
        /\ \A i \in 1..Len(groups[k].funcs) :
              groups'[k].funcs[i].func.state >= groups[k].funcs[i].func.state

\* C13: a key that occurs in both blocks of the stream has one entry,
\* inserted once and never replaced or reset (its accumulators only grow),
\* and one row in the block returned; its finalized results are those of
\* one accumulate over the key's rows of both blocks together, and its
\* COUNT(*) is the number of rows with that key in the two blocks.
C13_SameKeyAcrossBatches == [](C13_Invariant) /\ [][C13_Step]_vars

\* C13 witness: the call returned, a key came in both blocks, next to
\* another key
C13_Witness ==
    /\ Returned(1)
    /\ input.kind = "script"
    /\ Len(input.items) = 2
    /\ Cardinality(DOMAIN groups) = 2
    /\ \E k \in KeysInBoth : Finalized(groups[k], 1) = 2 /\ Finalized(groups[k], 2) >= 2

ReadOps == {"get_database", "get_table", "list_tables", "list_tables_history"}

\* what a layer can answer to the read request req
LayerResults(layer, c, req) ==
    IF req[1] = "get_database" THEN layer_get_database(layer, c, req[2], req[3])
    ELSE IF req[1] = "get_table" THEN layer_get_table(layer, c, req[2], req[3], req[4])
    ELSE IF req[1] = "list_tables" THEN layer_list_tables(layer, c, req[2], req[3])
    ELSE layer_list_tables_history(layer, c, req[2], req[3])

\* C14: a read that consulted a layer consulted the upper layer first; it
\* either consulted the upper layer only and returned the upper layer's
\* answer, a success or an error other than unknown database, as it is; or
\* the upper layer does not know the database, the bottom layer was
\* consulted second and its answer returned.
C14_ReadsUpperFirst ==
    (request[1] \in ReadOps /\ calls # <<>>) =>
        /\ calls[1] = <<"immutable", request[1]>>
        /\ \/ /\ Len(calls) = 1
              /\ reply \in LayerResults("immutable", immutable_catalog, request)
              /\ reply # CatErr(UNKNOWN_DATABASE)
           \/ /\ Len(calls) = 2
              /\ calls[2] = <<"mutable", request[1]>>
              /\ CatErr(UNKNOWN_DATABASE) \in LayerResults("immutable", immutable_catalog, request)
              /\ <<request[2], request[3]>> \notin immutable_catalog.dbs
              /\ reply \in LayerResults("mutable", mutable_catalog, request)

\* C14 witness: get_table for a table the upper layer's database does not
\* have returned the upper layer's unknown table, the bottom layer, which
\* has a database, not consulted
C14_Witness ==
    /\ request[1] = "get_table"
    /\ reply = CatErr(UNKNOWN_TABLE)
    /\ calls = <<<<"immutable", "get_table">>>>
    /\ mutable_catalog.dbs # {}

WriteOps == {"create_database", "drop_database", "rename_database", "undrop_database",
             "create_table", "undrop_table"}

\* C15 (as claimed): no operation calls a write operation on the upper
\* layer; a write operation that did not fail on the tenant or on the
\* existence check is called on the bottom layer.
C15_WritesBottomOnly ==
    /\ \A i \in DOMAIN calls : calls[i][1] = "immutable" => calls[i][2] \notin WriteOps
    /\ (request[1] = "drop_database" /\ Len(calls) = 2) =>
          calls[2] = <<"mutable", "drop_database">>

C16_Invariant ==
    /\ immutable_catalog.dbs \cap mutable_catalog.dbs = {}
    /\ (/\ request[1] = "create_database"
        /\ <<request[2], request[3]>> \in immutable_catalog.dbs) =>
          /\ reply \in {CatErr("DatabaseAlreadyExists"), CatErr("Internal")}
          /\ calls = <<ExistsCall>>

C16_Step ==
    request'[1] = "create_database" =>
        LET db == <<request'[2], request'[3]>>
        IN /\ immutable_catalog' = immutable_catalog
           /\ \A i \in DOMAIN calls' :
                 calls'[i][1] = "immutable" => calls'[i][2] = "exists_database"
           /\ db \in immutable_catalog.dbs =>
                 /\ mutable_catalog' = mutable_catalog
                 /\ reply'.status = "err"
           /\ (db \notin immutable_catalog.dbs /\ request'[2] # "" /\ reply' # CatErr("Internal")) =>
                 /\ calls' = <<ExistsCall, <<"mutable", "create_database">>>>
                 /\ Written(reply', mutable_catalog')
                       \in mutable_create_database(mutable_catalog, request'[2], request'[3])

\* C16: create_database for a database of the upper layer fails, with
\* DatabaseAlreadyExists unless the existence check itself failed, calls
\* nothing but that check and changes neither layer; for any other database
\* (the tenant not empty) it is the bottom layer's create_database that is
\* called and answers, and the upper layer is only asked exists_database;
\* the databases of the two layers stay disjoint.
C16_CreateDatabase == [](C16_Invariant) /\ [][C16_Step]_vars

\* C16 witness: a database was created in the bottom layer, and the create
\* of a database of the upper layer was refused
C16_Witness ==
    /\ request[1] = "create_database"
    /\ <<request[2], request[3]>> \in immutable_catalog.dbs
    /\ reply = CatErr("DatabaseAlreadyExists")
    /\ mutable_catalog.dbs # {}

\* the state of the operator's state machine a call is in
PhaseOf(p) ==
    IF pc[p] = "Idle" THEN "Idle"
    ELSE IF pc[p] \in {"AwaitInput", "AwaitNext", "EvalGroup", "ForGroups", "Lock", "Miss", "Hit"}
    THEN "Streaming"
    ELSE IF pc[p] \in {"CheckEmpty", "ReadLock", "Fields", "Drain"} THEN "Draining"
    ELSE pc[p]

\* the blocks pulled so far are fully applied to the table
AllApplied(p) ==
    /\ block[p] = NoBlock
    /\ group_indices[p] = EmptyMap
    /\ take_block[p] = NoBlock
    /\ lock.writer # p
    /\ DOMAIN groups = DOMAIN fed
    /\ \A k \in DOMAIN groups : Finalized(groups[k], 1) = fed[k]

C17_Invariant ==
    \A p \in Procs :
        /\ PhaseOf(p) \in {"Idle", "Streaming", "Draining"} => result[p] = NoResult
        /\ result[p].blocks # <<>> => PhaseOf(p) = "Finished"
        /\ PhaseOf(p) = "Draining" =>
              /\ AllApplied(p)
              /\ stream[p].items = <<>>
              /\ stream[p].n = Len(input.items)

C17_Step ==
    \A p \in Procs :
        /\ PhaseOf(p)' # PhaseOf(p) =>
              \/ PhaseOf(p) = "Idle" /\ PhaseOf(p)' = "Streaming"
              \/ PhaseOf(p) = "Streaming" /\ PhaseOf(p)' \in {"Draining", "Failed"}
              \/ PhaseOf(p) = "Draining" /\ PhaseOf(p)' \in {"Finished", "Failed"}
        /\ stream'[p].n # stream[p].n =>
              /\ pc[p] = "AwaitNext"
              /\ AllApplied(p)
              /\ stream'[p].n = stream[p].n + 1
              /\ pc'[p] = "Failed" \/ block'[p] = input.items[stream'[p].n]
        /\ PhaseOf(p) \in {"Draining", "Finished", "Failed"} =>
              /\ stream'[p].n = stream[p].n
              /\ groups' = groups

\* C17: a call passes Idle, Streaming, Draining, Finished in this order (or
\* ends in Failed from Streaming or Draining) and re-enters none; it has
\* returned nothing until it is Finished; it is in Draining only when the
\* stream has ended and every block pulled is fully applied to the table,
\* and neither pulls nor changes the table from then on; and it pulls the
\* blocks one by one in the order of the stream, each only when the blocks
\* before it are fully applied.
C17_PhaseOrder == [](C17_Invariant) /\ [][C17_Step]_vars

\* C17 witness: the call is draining after two blocks with rows, pulled and
\* applied one after the other
C17_Witness ==
    /\ pc[1] = "Drain"
    /\ stream[1].n = 2
    /\ \A i \in 1..2 : num_rows(input.items[i]) > 0
    /\ Cardinality(DOMAIN groups) = 2

\* the local map gi partitions the rows of block b by key
PartitionsRows(gi, b) ==
    /\ \A row \in 0..(num_rows(b) - 1) :
          /\ Cardinality({k \in DOMAIN gi : row \in Range(gi[k].indices)}) = 1
          /\ \A k \in DOMAIN gi :
                Cardinality({j \in DOMAIN gi[k].indices : gi[k].indices[j] = row}) <= 1
    /\ \A k \in DOMAIN gi :
          /\ gi[k].indices # <<>>
          /\ \A j \in DOMAIN gi[k].indices :
                /\ gi[k].indices[j] \in 0..(num_rows(b) - 1)
                /\ RowKey(b, group_exprs, gi[k].indices[j], <<>>) = k
          /\ \A i, j \in DOMAIN gi[k].indices : i < j => gi[k].indices[i] < gi[k].indices[j]
          /\ gi[k].values = RowValues(b, group_exprs, gi[k].indices[1])

\* C18: the step that groups the rows of a block leaves a local map in
\* which every row index 0..num_rows-1 is in the list of exactly one key,
\* once; every list is ascending and holds only rows whose encoded key is
\* the list's key; and the key values kept for a key are those of its
\* first row.
C18_LocalGroupsPartition ==
    [][\A p \in Procs :
          (pc[p] = "EvalGroup" /\ pc'[p] = "ForGroups") =>
              PartitionsRows(group_indices'[p], block[p])]_vars

\* C18 witness: a block of three rows is grouped, the first and the last
\* row under one key and the second under another
C18_Witness ==
    /\ pc[1] = "ForGroups"
    /\ num_rows(block[1]) = 3
    /\ \E k \in DOMAIN group_indices[1] : group_indices[1][k].indices = <<0, 2>>
    /\ Cardinality(DOMAIN group_indices[1]) = 2

\* the local map of the block a call is working on, as grouped
FullGroups(p) == BlockGroups(block[p], group_exprs)

C19_Invariant ==
    \A p \in Procs :
        pc[p] \in {"Lock", "Miss", "Hit"} =>
            /\ group_key[p] \in DOMAIN FullGroups(p)
            /\ group_key[p] \notin DOMAIN group_indices[p]
            /\ take_block[p] =
                  block_take_by_indices(block[p], FullGroups(p)[group_key[p]].indices)
            /\ num_rows(take_block[p]) = Len(FullGroups(p)[group_key[p]].indices)
            /\ \A k \in DOMAIN group_indices[p] : group_indices[p][k] = FullGroups(p)[k]

C19_Step ==
    \A p \in Procs :
        /\ (take_block'[p] # take_block[p] /\ take_block'[p] # NoBlock) =>
              /\ pc[p] = "ForGroups"
              /\ take_block[p] = NoBlock
              /\ \E key \in DOMAIN group_indices[p] :
                    LET indices == group_indices[p][key].indices
                    IN /\ group_key'[p] = key
                       /\ DOMAIN group_indices'[p] = DOMAIN group_indices[p] \ {key}
                       /\ take_block'[p].cols = block[p].cols
                       /\ num_rows(take_block'[p]) = Len(indices)
                       /\ \A i \in 1..Len(indices) :
                             take_block'[p].rows[i] = block[p].rows[indices[i] + 1]
        /\ pc[p] \in {"Lock", "Miss", "Hit"} =>
              take_block'[p] = take_block[p] \/ pc'[p] \in {"ForGroups", "Failed"}
        /\ (pc[p] = "Miss" /\ Len(aggr_funcs'[p]) = Len(aggr_funcs[p]) + 1) =>
              LET slot == aggr_funcs'[p][Len(aggr_funcs'[p])]
              IN slot.func.kind = "count" => slot.func.state = num_rows(take_block[p])
        /\ (pc[p] = "Hit" /\ idx'[p] = idx[p] + 1) =>
              LET old == groups[group_key[p]].funcs[idx[p]].func
                  new == groups'[group_key[p]].funcs[idx[p]].func
              IN old.kind = "count" => new.state = old.state + num_rows(take_block[p])

\* C19: a take block is made only by the step that takes the next local
\* group out of the local map, so once per group, and it has the rows of
\* the block at the group's indices, as many and in their order; it stays
\* the same through the accumulates of all aggregate expressions of the
\* group, and every COUNT(*) accumulate of the group grows by its number of
\* rows.
C19_GatherOncePerGroup == [](C19_Invariant) /\ [][C19_Step]_vars

\* C19 witness: both slots of a new group have accumulated one take block
\* of one row of a block of two rows in two groups
C19_Witness ==
    /\ pc[1] = "Miss"
    /\ Len(aggr_funcs[1]) = 2
    /\ num_rows(block[1]) = 2
    /\ num_rows(take_block[1]) = 1
    /\ Cardinality(DOMAIN FullGroups(1)) = 2

\* a call is inside the upsert of a local group: from the lookup to the
\* insert or the last accumulate
InUpsert(p) == pc[p] \in {"Miss", "Hit"}

C20_Invariant ==
    /\ \A k \in DOMAIN inserts : inserts[k] = 1
    /\ \A p, q \in Procs : (InUpsert(p) /\ InUpsert(q)) => p = q
    /\ \A p \in Procs :
          /\ InUpsert(p) => lock = [writer |-> p, readers |-> {}]
          /\ pc[p] = "Miss" => group_key[p] \notin DOMAIN groups
          /\ pc[p] = "Hit" => group_key[p] \in DOMAIN groups
    /\ (\A p \in Procs : pc[p] = "Idle" \/ Between(p)) =>
          /\ DOMAIN groups = DOMAIN fed
          /\ \A k \in DOMAIN groups :
                \A i \in 1..Len(aggr_exprs) : Finalized(groups[k], i) = fed[k]

C20_Step ==
    groups' # groups =>
        \E p \in Procs :
            /\ InUpsert(p)
            /\ lock.writer = p
            /\ \A k \in DOMAIN groups : k # group_key[p] => (k \in DOMAIN groups' /\ groups'[k] = groups[k])
            /\ DOMAIN groups' \subseteq DOMAIN groups \cup {group_key[p]}

\* C20: with two calls upserting into the one table, at most one call is
\* between its lookup and the end of its insert or accumulate, and it holds
\* the write lock alone; what it looked up stays so until it is done (a key
\* not found is in the table only by its own insert); only that call
\* changes the table, and only the entry of its key; no key is inserted
\* twice; and once both calls have applied their blocks every entry has
\* absorbed every row pulled with its key: COUNT(*) and SUM(A), A being 1,
\* are the number of those rows, as when the take blocks are applied one
\* after the other.
C20_UpsertCriticalSection == [](C20_Invariant) /\ [][C20_Step]_vars

\* C20 witness: both calls have applied a block with the same key; the key
\* was inserted once and has absorbed both rows
C20_Witness ==
    /\ pc[1] = "AwaitNext" /\ stream[1].n = 1
    /\ pc[2] = "AwaitNext" /\ stream[2].n = 1
    /\ \E k \in DOMAIN groups :
          /\ fed[k] = 2
          /\ inserts[k] = 1
          /\ Finalized(groups[k], 1) = 2
          /\ Finalized(groups[k], 2) = 2

\* C21 (as claimed): when an upsert fails for a missing argument column the
\* table is as it was before the upsert: on the miss path the key is not
\* in it, on the hit path no slot of the entry has absorbed the take block
\* (its COUNT(*) is the number of rows pulled with the key less those of
\* the take block), and no other entry has changed.
C21_FailedUpsertLeavesTable ==
    [][\A p \in Procs :
          (/\ pc[p] \in {"Miss", "Hit"}
           /\ pc'[p] = "Failed"
           /\ result'[p].cause = "arg_column") =>
              /\ groups' = groups
              /\ pc[p] = "Miss" => group_key[p] \notin DOMAIN groups'
              /\ pc[p] = "Hit" =>
                    Finalized(groups'[group_key[p]], 1)
                        = fed[group_key[p]] - num_rows(take_block[p])]_vars

\* the key the typed values vals of the columns cols encode to
RECURSIVE EncodeValues(_, _, _)
EncodeValues(cols, vals, vec) ==
    IF cols = <<>> THEN vec
    ELSE EncodeValues(Tail(cols), Tail(vals),
                      concat_row_to_one_key(ColType(Head(cols)), Head(vals), vec))

KeyOfValues(vals) == EncodeValues(group_exprs, vals, <<>>)

C22_Invariant ==
    /\ \A k \in DOMAIN groups :
          /\ Len(groups[k].values) = Len(group_exprs)
          /\ KeyOfValues(groups[k].values) = k
    /\ \A p \in Procs :
          (Returned(p) /\ result[p].blocks # <<>>) =>
              LET b == result[p].blocks[1]
              IN \A r \in OutRows(b) :
                    /\ b.columns[Len(b.columns) - 1][r] = to_string(groups[OutKey(b, r)].values)
                    /\ KeyOfValues(b.columns[Len(b.columns) - 1][r].of) = OutKey(b, r)

C22_Step ==
    /\ \A k \in DOMAIN groups : k \in DOMAIN groups' /\ groups'[k].values = groups[k].values
    /\ \A p \in Procs :
          (pc[p] = "Miss" /\ group_key[p] \in DOMAIN groups') =>
              LET first == FullGroups(p)[group_key[p]].indices[1]
              IN groups'[group_key[p]].values
                    = [i \in 1..Len(group_exprs) |->
                          try_from_array(ColType(group_exprs[i]),
                                         block[p].rows[first + 1][group_exprs[i]])]

\* C22: the key values of every entry encode to the entry's key; they are
\* the typed values of the first row of the block that created the entry
\* and no later step changes them; and in every row of the block returned
\* _group_keys is the serialized tuple of the entry and encodes to the
\* bytes of _group_by_key of that row.
C22_KeyValuesMatchKey == [](C22_Invariant) /\ [][C22_Step]_vars

\* C22 witness: returned after two blocks, with a row for the null key and
\* one for key 0, each key carried by two rows
C22_Witness ==
    /\ Returned(1)
    /\ stream[1].n = 2
    /\ DOMAIN groups = {<<0>>, NullMarker}
    /\ \A k \in DOMAIN groups : fed[k] = 2

\* the slots of an entry are those of the aggregate expressions, in order
SlotsOfExprs(entry) ==
    /\ Len(entry.funcs) = Len(aggr_exprs)
    /\ \A i \in 1..Len(aggr_exprs) :
          /\ entry.funcs[i].name = aggr_exprs[i].name
          /\ entry.funcs[i].args = aggr_exprs[i].args
          /\ entry.funcs[i].func.kind = aggr_exprs[i].func

\* C23: every entry of the table has one slot per aggregate expression, in
\* the order of the expressions and with their names, arguments and
\* functions, so the aggregate fields are the same whichever entry they are
\* taken from; in the drain the aggregate fields carry the names of the
\* expressions in order, and for every entry drained builder i has received
\* the serialized state of slot i, at the row of the entry's key.
C23_OneSlotPerAggregate ==
    /\ \A k \in DOMAIN groups : SlotsOfExprs(groups[k])
    /\ \A k1, k2 \in DOMAIN groups : AggrFields(groups[k1].funcs) = AggrFields(groups[k2].funcs)
    /\ \A p \in Procs :
          pc[p] = "Drain" =>
              /\ \A i \in 1..Len(aggr_exprs) :
                    fields[p][Len(group_exprs) + i].name = aggr_exprs[i].name
              /\ Range(group_key_builder[p]) = DOMAIN groups \ todo[p]
              /\ Len(builders[p]) = Len(aggr_exprs) + 1
              /\ \A i \in 1..Len(aggr_exprs) :
                    /\ Len(builders[p][i]) = Len(group_key_builder[p])
                    /\ \A j \in 1..Len(group_key_builder[p]) :
                          builders[p][i][j] =
                              to_string(accumulate_result(
                                  groups[group_key_builder[p][j]].funcs[i].func))

\* C23 witness: two entries are drained, in one of them the state of
\* COUNT(*) is not that of SUM(A)
C23_Witness ==
    /\ pc[1] = "Drain"
    /\ todo[1] = {}
    /\ Len(group_key_builder[1]) = 2
    /\ \E k \in DOMAIN groups : Finalized(groups[k], 1) # Finalized(groups[k], 2)

\* the operations of DatabaseCatalog that check the tenant
TenantOps == {"get_database", "list_databases", "create_database", "drop_database",
              "rename_database", "get_table", "list_tables", "list_tables_history",
              "create_table", "undrop_table", "undrop_database", "rename_table",
              "count_tables"}

C24_Invariant ==
    (request[1] \in TenantOps /\ request[2] = "") =>
        /\ reply = CatErr("TenantIsEmpty")
        /\ calls = <<>>

C24_Step ==
    (request'[1] \in TenantOps /\ request'[2] = "") =>
        /\ immutable_catalog' = immutable_catalog
        /\ mutable_catalog' = mutable_catalog

\* C24: an operation of DatabaseCatalog that checks the tenant, called with
\* the empty tenant, fails with TenantIsEmpty, has called no operation of
\* either layer and leaves both layers as they were.
C24_EmptyTenantRefused == [](C24_Invariant) /\ [][C24_Step]_vars

\* C24 witness: rename_table was called with the empty tenant while the
\* bottom layer holds a table, and was refused
C24_Witness ==
    /\ request[1] = "rename_table"
    /\ request[2] = ""
    /\ reply = CatErr("TenantIsEmpty")
    /\ mutable_catalog.tables # {}

\* the tables of either layer that are in a database of the upper layer
UpperTables ==
    {t \in immutable_catalog.tables \cup mutable_catalog.tables :
        <<t[1], t[2]>> \in immutable_catalog.dbs}

C25_Invariant ==
    /\ \A t \in mutable_catalog.tables : <<t[1], t[2]>> \notin immutable_catalog.dbs
    /\ (/\ request[1] = "rename_table"
        /\ request[2] # ""
        /\ \/ <<request[2], request[3]>> \in immutable_catalog.dbs
           \/ <<request[2], request[5]>> \in immutable_catalog.dbs) =>
          /\ reply \in {CatErr("Unimplemented"), CatErr("Internal")}
          /\ \A i \in DOMAIN calls : calls[i] = ExistsCall

C25_Step ==
    request'[1] = "rename_table" =>
        LET tenant == request'[2]
            upper == \/ <<tenant, request'[3]>> \in immutable_catalog.dbs
                     \/ <<tenant, request'[5]>> \in immutable_catalog.dbs
        IN /\ immutable_catalog' = immutable_catalog
           /\ UpperTables' = UpperTables
           /\ \A i \in DOMAIN calls' :
                 calls'[i][1] = "immutable" => calls'[i][2] = "exists_database"
           /\ upper => mutable_catalog' = mutable_catalog
           /\ (~upper /\ tenant # "" /\ reply' # CatErr("Internal")) =>
                 /\ calls' = <<ExistsCall, ExistsCall, <<"mutable", "rename_table">>>>
                 /\ Written(reply', mutable_catalog')
                       \in mutable_rename_table(mutable_catalog, tenant, request'[3],
                                                request'[4], request'[5], request'[6])

\* C25: rename_table of a table whose database, or whose new database, is in
\* the upper layer fails, with Unimplemented unless the existence check
\* itself failed, calls nothing but that check and changes neither layer;
\* otherwise (the tenant not empty) the bottom layer's rename_table is
\* called and answers, the upper layer unchanged. The tables of the
\* databases of the upper layer are the same after any rename_table, and
\* the bottom layer never holds a table of such a database.
C25_RenameTable == [](C25_Invariant) /\ [][C25_Step]_vars

\* C25 witness: the bottom layer has the table, the upper layer has the
\* database of the new name, and the rename was refused after both checks
C25_Witness ==
    /\ request = <<"rename_table", "t1", "db1", "tb", "system", "tb">>
    /\ <<"t1", "db1", "tb">> \in mutable_catalog.tables
    /\ <<"t1", "system">> \in immutable_catalog.dbs
    /\ reply = CatErr("Unimplemented")
    /\ calls = <<ExistsCall, ExistsCall>>

\* the grant objects a level stands for: the object by identifier, and for
\* a table or a database the object by name of the old versions
ByIdObject(level) ==
    LET db == database_name_of(level)
    IN IF level.kind = "Global" THEN Global
       ELSE IF level.kind = "Table"
       THEN TableById(catalog_name, db_id_of(db), table_id_of(db, level.table_name))
       ELSE IF level.kind = "Database" THEN DatabaseById(catalog_name, db_id_of(db))
       ELSE IF level.kind = "UDF" THEN UDF(level.name)
       ELSE Stage(level.name)

ByNameObject(level) ==
    IF level.kind = "Table"
    THEN Table(catalog_name, database_name_of(level), level.table_name)
    ELSE Database(catalog_name, database_name_of(level))

C27_AlterUserPlan ==
    request[1] = "bind_alter_user" =>
        LET stmt == request[2]
            got == request[3]
        IN /\ reply.status = "err" => reply.plan = None
           /\ got = None => reply.status = "err"
           /\ reply = BindErr("InvalidPassword") =>
                 /\ stmt.auth_option # None
                 /\ calls[Len(calls)] = VerifyCall
           /\ reply.status = "ok" =>
                 LET user_info == got[1]
                     plan == reply.plan[1]
                     applied == apply_all(stmt.user_options, user_info.option)
                 IN /\ plan.user = user_info.name
                    /\ plan.user_option = None <=> applied = user_info.option
                    /\ plan.user_option # None => plan.user_option = Some(applied)
                    /\ stmt.auth_option = None =>
                          /\ plan.auth_info = None
                          /\ VerifyCall \notin Range(calls)
                    /\ stmt.auth_option # None =>
                          LET altered == alter2(user_info.auth_info,
                                                stmt.auth_option[1].auth_type,
                                                stmt.auth_option[1].password)
                          IN /\ altered.status = "ok"
                             /\ plan.auth_info = None <=> altered.auth_info = user_info.auth_info
                             /\ plan.auth_info # None => plan.auth_info = Some(altered.auth_info)
                             /\ calls[Len(calls)] = VerifyCall

\* C27 witness: the statement gives the password the user has and an option
\* the user has: the password was verified and the plan changes nothing
C27_Witness ==
    /\ request[1] = "bind_alter_user"
    /\ request[2].auth_option = Some(AuthOption(None, Some("p1")))
    /\ request[2].user_options = <<TenantSetting(TRUE)>>
    /\ reply.status = "ok"
    /\ reply.plan[1].auth_info = None
    /\ reply.plan[1].user_option = None
    /\ calls = <<<<"users", "get_user">>, VerifyCall>>

====
